---- MODULE Spec2Model ----
(***************************************************************************)
(* The monitoring subsystem of src/index.tsx: the App component's vitals   *)
(* simulation, vitals alert, GPS tracking and out-of-bounds alert effects, *)
(* the handlers that feed them, and AuthGate's login/logout, which mounts  *)
(* and unmounts App; and the searches of App: the symptom analysis, the    *)
(* hospital finder with its reconciliation of the grounded places with the *)
(* narrative of the response, the financial aid query, the chat of the     *)
(* health assistant, and startNewCheck.  A call that is pending is part of *)
(* the state, and its completion is a task of its own.                     *)
(*                                                                         *)
(* One action is one browser task: the event handler, the render(s) it     *)
(* causes (React 18 createRoot: the state updates of one task are batched  *)
(* into one render) and every effect whose dependency array changed, run   *)
(* in the order the effects are declared in App.                           *)
(***************************************************************************)
EXTENDS Integers, Sequences, FiniteSets, TLC

VARIABLES
    isAuthenticated,            \* AuthGate state: App is mounted iff TRUE
    screen,                     \* App state `screen`
    isLinked,                   \* App state
    heartRate,                  \* App state
    oxygenLevel,                \* App state
    emergencyContact,           \* App state: a string, as a sequence of characters
    homePosition,               \* App state: <<>> (null) or <<[lat, lon]>>
    currentPosition,            \* App state: <<>> (null) or <<[lat, lon]>>
    isOutOfBounds,              \* App state
    vitalsAlertShownRef,        \* useRef(false).current
    outOfBoundsAlertShownRef,   \* useRef(false).current
    intervalId,                 \* the vitals effect's interval: 0 (undefined) or 1
    locationWatchIdRef,         \* useRef(null).current: 0 (null) or 1 (a watch id)
    vitalsAlerts,               \* the vitals alert() dialogs shown by the last task
    locationAlerts,             \* the location alert() dialogs shown by the last task
    alertsInRun,                \* history: vitals alerts in the current run of abnormal readings
    alertsSincePress,           \* history: the same, counted from the last Simulate press
    readings,                   \* history: position readings received since App was mounted
    lastSessionHome,            \* history: homePosition of the session that was last logged out
    symptoms,                   \* App state: a string, as a sequence of characters
    results,                    \* App state: the text of the analysis, "" if none
    error,                      \* App state: the message of the input screen
    analysisRequest,            \* the call of handleAnalyzeSymptoms is pending
    history,                    \* App state: the past checks, newest first
    storedHistory,              \* localStorage 'symptomHistory'
    budget,                     \* App state: the value of the number input, a sequence of characters
    hospitals,                  \* App state: the reconciled hospitals
    isFindingHospitals,         \* App state
    hospitalError,              \* App state
    hospitalRequest,            \* the pending call of handleFindHospitals: "none", "locating", "asking"
    hospitalResponse,           \* history: <<>> or <<the response the last task reconciled>>
    financialAidQuery,          \* App state: a string, as a sequence of characters
    financialAidInfo,           \* App state: the aid options, a JSON value
    financialAidError,          \* App state
    isFindingFinancialAid,      \* App state
    aidRequests,                \* the pending calls of handleFindFinancialAid, by their numbers
    aidCalls,                   \* history: the calls of handleFindFinancialAid that sent a query
    aidResponse,                \* history: <<>> or <<the call the last task ended and its outcome>>
    chatHistory,                \* App state: the messages of the chat, each a role and a text
    isAssistantTyping,          \* App state
    chatRequests,               \* the pending calls of handleSendChatMessage, each with its updatedHistory
    theme,                      \* App state: the name of the theme applied
    appTheme                    \* localStorage 'appTheme': "" (no item) or a name

vars == <<isAuthenticated, screen, isLinked, heartRate, oxygenLevel, emergencyContact,
          homePosition, currentPosition, isOutOfBounds, vitalsAlertShownRef,
          outOfBoundsAlertShownRef, intervalId, locationWatchIdRef, vitalsAlerts,
          locationAlerts, alertsInRun, alertsSincePress, readings, lastSessionHome,
          symptoms, results, error, analysisRequest, history, storedHistory, budget,
          hospitals,
          isFindingHospitals, hospitalError, hospitalRequest, hospitalResponse,
          financialAidQuery, financialAidInfo, financialAidError, isFindingFinancialAid,
          aidRequests, aidCalls, aidResponse, chatHistory, isAssistantTyping,
          chatRequests, theme, appTheme>>

\* The monitoring state of App, but for the dialogs of the last task.
monitorVars == <<isLinked, heartRate, oxygenLevel, emergencyContact, homePosition,
                 currentPosition, isOutOfBounds, vitalsAlertShownRef,
                 outOfBoundsAlertShownRef, intervalId, locationWatchIdRef, alertsInRun,
                 alertsSincePress, readings, lastSessionHome>>
analysisVars == <<symptoms, results, error, analysisRequest>>
historyVars == <<history, storedHistory>>
hospitalVars == <<budget, hospitals, isFindingHospitals, hospitalError, hospitalRequest,
                  hospitalResponse>>
aidVars == <<financialAidQuery, financialAidInfo, financialAidError, isFindingFinancialAid,
             aidRequests, aidCalls, aidResponse>>
chatVars == <<chatHistory, isAssistantTyping, chatRequests>>
themeVars == <<theme, appTheme>>
\* What the monitoring tasks leave alone.
searchVars == <<analysisVars, historyVars, hospitalVars, aidVars, chatVars, themeVars>>

----------------------------------------------------------------------------
(* Bounds of the model *)

\* The farthest position reading, in arc-kilometres from the point 0 (see calculateDistance).
MaxLat == 6
\* The history counters saturate here ("CountCap or more").
CountCap == 2
\* Math.random() returns one of the RandomGrain values 0/RandomGrain .. (RandomGrain-1)/RandomGrain.
RandomGrain == 52

----------------------------------------------------------------------------
(* Values *)

Min(a, b) == IF a < b THEN a ELSE b
Max(a, b) == IF a > b THEN a ELSE b
Abs(x) == IF x < 0 THEN -x ELSE x

Null == <<>>
Position(lat, lon) == <<[lat |-> lat, lon |-> lon]>>

\* Characters String.prototype.trim removes; "9" stands for any other character.
WhiteSpace == {" "}

RECURSIVE TrimStart(_)
TrimStart(s) ==
    IF s # <<>> /\ Head(s) \in WhiteSpace THEN TrimStart(Tail(s)) ELSE s

RECURSIVE TrimEnd(_)
TrimEnd(s) ==
    IF s # <<>> /\ s[Len(s)] \in WhiteSpace THEN TrimEnd(SubSeq(s, 1, Len(s) - 1)) ELSE s

\* emergencyContact.trim()
Trim(s) == TrimEnd(TrimStart(s))

----------------------------------------------------------------------------
(* Values of the responses *)

\* The JSON values: a list with its elements, null, and an object that is no list.
Array(items) == [kind |-> "array", items |-> items]
JsonNull == [kind |-> "null"]
JsonObject == [kind |-> "object"]

\* response.text: the serialisation of a JSON value, a text that is not JSON, or
\* undefined (a response without a text part).
Serialised(value) == [kind |-> "json", value |-> value]
Garbled == [kind |-> "garbled"]
NoText == [kind |-> "undefined"]

\* JSON.parse(text): the value of a serialisation; a SyntaxError for every other
\* text and for undefined, which it reads as the text "undefined".
JSONparse(text) ==
    IF text.kind = "json" THEN [threw |-> FALSE, value |-> text.value]
    ELSE [threw |-> TRUE, value |-> JsonNull]

----------------------------------------------------------------------------
(* Pure functions of the source *)

\* Variant: the limits themselves are abnormal.
AbnormalInclusive(hr, ox) == hr <= 60 \/ hr >= 100 \/ ox <= 95

\* heartRate < 60 || heartRate > 100 || oxygenLevel < 95
Abnormal(hr, ox) == hr < 60 \/ hr > 100 \/ ox < 95

\* Radius of the Earth in km
R == 6371

(***************************************************************************)
(* The haversine distance in km.  Coordinates are integers in units of 1/R *)
(* radian (one arc-kilometre, 180/(pi*R) degrees), and the readings of the *)
(* model all lie on one meridian (lon1 = lon2).  There dLon = 0, so        *)
(* a = sin^2(dLat/2) and c = 2*atan2(sqrt(a), sqrt(1-a)) = |dLat|; with    *)
(* dLat counted in 1/R radian, R * c is (R * |dLat|) / R.                  *)
(***************************************************************************)
calculateDistance(lat1, lon1, lat2, lon2) ==
    LET dLat == lat2 - lat1
        c    == Abs(dLat)
    IN  (R * c) \div R

\* A clamp that forgets the upper limit.
ClampBelowOnly(lo, hi, x) == Max(lo, x)

\* Math.max(lo, Math.min(hi, x))
Clamp(lo, hi, x) == Max(lo, Min(hi, x))

----------------------------------------------------------------------------
(* The random draws of the source, and the inputs of the model *)

\* The values Math.random() returns, as numerators over RandomGrain: 0 <= random < 1.
Randoms == 0..(RandomGrain - 1)
\* Math.floor(random * n) for the random value k / RandomGrain.
FloorOfRandomTimes(k, n) == (k * n) \div RandomGrain

\* Math.round in place of Math.floor: the draw may reach 96.
InitialHeartRatesRounded == {(2 * k * (95 - 70 + 1) + RandomGrain) \div (2 * RandomGrain) + 70 : k \in Randoms}

\* Math.floor(Math.random() * (95 - 70 + 1)) + 70
InitialHeartRates == {FloorOfRandomTimes(k, 95 - 70 + 1) + 70 : k \in Randoms}
\* Math.floor(Math.random() * (100 - 96 + 1)) + 96
InitialOxygenLevels == {FloorOfRandomTimes(k, 100 - 96 + 1) + 96 : k \in Randoms}
\* Math.floor(Math.random() * 5) - 2
HeartRateSteps == -2..2
\* Math.random() > 0.8 ? (Math.random() > 0.5 ? 1 : -1) : 0
OxygenSteps == {-1, 0, 1}

\* The draws of the specification Spec, which follows the geofence and the sessions
\* in full and lets the simulated reading move through its oxygen level only.
SomeInitialHeartRates == {95}
SomeInitialOxygenLevels == {96}
SomeHeartRateSteps == {0}

\* Position readings: the point 0 and the points 4 km to MaxLat km north of it.
Lats == {0} \cup 4..MaxLat
\* The position readings of SpecVitals: the user stays where monitoring started.
SomeLats == {0}

\* The values typed into the emergency contact field.
Contacts == {<<>>, <<" ">>, <<"9">>}
\* The values typed in SpecVitals.
SomeContacts == {<<>>, <<"9">>}

----------------------------------------------------------------------------
(* The effects of App *)

\* Variant: the alert does not wait for a contact.
VitalsAlertEffectWithoutContact(linked, contact, hr, ox, shown) ==
    IF linked /\ ~shown /\ Abnormal(hr, ox)
    THEN [alerts |-> <<[heartRate |-> hr, oxygenLevel |-> ox, contact |-> contact]>>,
          shown  |-> TRUE]
    ELSE [alerts |-> <<>>, shown |-> shown]

\* Variant: the alert is shown and the latch is never set.
VitalsAlertEffectNoLatch(linked, contact, hr, ox, shown) ==
    IF linked /\ Trim(contact) # <<>> /\ ~shown /\ Abnormal(hr, ox)
    THEN [alerts |-> <<[heartRate |-> hr, oxygenLevel |-> ox, contact |-> contact]>>,
          shown  |-> shown]
    ELSE [alerts |-> <<>>, shown |-> shown]

\* Variant: the contact is tested without trim().
VitalsAlertEffectNoTrim(linked, contact, hr, ox, shown) ==
    IF linked /\ contact # <<>> /\ ~shown /\ Abnormal(hr, ox)
    THEN [alerts |-> <<[heartRate |-> hr, oxygenLevel |-> ox, contact |-> contact]>>,
          shown  |-> TRUE]
    ELSE [alerts |-> <<>>, shown |-> shown]

\* Variant: the latch is set whether or not there is a contact to deliver to.
VitalsAlertEffectLatchFirst(linked, contact, hr, ox, shown) ==
    IF linked /\ ~shown /\ Abnormal(hr, ox)
    THEN [alerts |-> IF Trim(contact) # <<>>
                     THEN <<[heartRate |-> hr, oxygenLevel |-> ox, contact |-> contact]>>
                     ELSE <<>>,
          shown  |-> TRUE]
    ELSE [alerts |-> <<>>, shown |-> shown]

\* The vitals alert effect: the dialogs it shows and the latch it leaves.
VitalsAlertEffect(linked, contact, hr, ox, shown) ==
    IF linked /\ Trim(contact) # <<>> /\ ~shown /\ Abnormal(hr, ox)
    THEN [alerts |-> <<[heartRate |-> hr, oxygenLevel |-> ox, contact |-> contact]>>,
          shown  |-> TRUE]
    ELSE [alerts |-> <<>>, shown |-> shown]

\* Variant: the latch is not cleared on a return in bounds.
OutOfBoundsAlertEffectNoRearm(oob, contact, shown) ==
    LET fire == oob /\ Trim(contact) # <<>> /\ ~shown
    IN  [alerts |-> IF fire THEN <<[contact |-> contact]>> ELSE <<>>,
         shown  |-> IF fire THEN TRUE ELSE shown]

\* The out of bounds alert effect: the dialogs it shows and the latch it leaves.
OutOfBoundsAlertEffect(oob, contact, shown) ==
    LET fire   == oob /\ Trim(contact) # <<>> /\ ~shown
        shown1 == IF fire THEN TRUE ELSE shown
    IN  [alerts |-> IF fire THEN <<[contact |-> contact]>> ELSE <<>>,
         shown  |-> IF ~oob THEN FALSE ELSE shown1]

\* Variant: the interval is left running.
VitalsCleanupSkipped(id) == id

\* The cleanup of the vitals simulation effect: if (intervalId) clearInterval(intervalId)
VitalsCleanup(id) == IF id # 0 THEN 0 ELSE id

\* The cleanup of the GPS tracking effect:
\* if (locationWatchIdRef.current !== null) clearWatch(locationWatchIdRef.current)
\* (the ref keeps its value; what is modelled is whether the watch is still subscribed)
GpsCleanup(id) == IF id # 0 THEN 0 ELSE id

\* Variant: the home of a session without one is the point 0.
HomeOfOrigin(prevHome, newCurrentPos) == IF prevHome # Null THEN prevHome ELSE Position(0, 0)

\* Variant: the home follows the latest reading.
HomeOfLatest(prevHome, newCurrentPos) == newCurrentPos

\* const home = prevHome || newCurrentPos
HomeOf(prevHome, newCurrentPos) == IF prevHome # Null THEN prevHome ELSE newCurrentPos

\* Variant: the threshold itself is out of bounds.
OutOfBoundsInclusive(distance) == distance >= 5

\* setIsOutOfBounds(distance > 5)
OutOfBounds(distance) == distance > 5

\* The history counters after a task that showed n vitals alerts and left the reading hr, ox.
RunCount(count, linked, hr, ox, n) ==
    IF linked /\ Abnormal(hr, ox) THEN Min(CountCap, count + n) ELSE 0

----------------------------------------------------------------------------
(* Initial state: AuthGate is not authenticated, App is not mounted. The App *)
(* variables hold the useState/useRef initial values App is mounted with.    *)

Init ==
    /\ isAuthenticated = FALSE
    /\ screen = "welcome"
    /\ isLinked = FALSE
    /\ heartRate = 0
    /\ oxygenLevel = 0
    /\ emergencyContact = <<>>
    /\ homePosition = Null
    /\ currentPosition = Null
    /\ isOutOfBounds = FALSE
    /\ vitalsAlertShownRef = FALSE
    /\ outOfBoundsAlertShownRef = FALSE
    /\ intervalId = 0
    /\ locationWatchIdRef = 0
    /\ vitalsAlerts = <<>>
    /\ locationAlerts = <<>>
    /\ alertsInRun = 0
    /\ alertsSincePress = 0
    /\ readings = 0
    /\ lastSessionHome = Null
    /\ symptoms = <<>>
    /\ results = ""
    /\ error = ""
    /\ analysisRequest = FALSE
    /\ history = <<>>
    /\ storedHistory = <<>>
    /\ budget = <<>>
    /\ hospitals = <<>>
    /\ isFindingHospitals = FALSE
    /\ hospitalError = ""
    /\ hospitalRequest = "none"
    /\ hospitalResponse = <<>>
    /\ financialAidQuery = <<>>
    /\ financialAidInfo = Array(<<>>)
    /\ financialAidError = ""
    /\ isFindingFinancialAid = FALSE
    /\ aidRequests = {}
    /\ aidCalls = 0
    /\ aidResponse = <<>>
    /\ chatHistory = <<>>
    /\ isAssistantTyping = FALSE
    /\ chatRequests = <<>>
    /\ theme = "default"
    /\ appTheme = ""

\* The value undefined where the code expects a string; no text of the model.
Undefined == "undefined"

(***************************************************************************)
(* Rendering the current screen throws a TypeError: ResultsScreen calls    *)
(* results.replace, and FinancialAidResultsScreen, once isLoading is       *)
(* false, calls aidOptions.map and reads option.schemeName of every        *)
(* element.  App has no error boundary: React unmounts the tree.           *)
(***************************************************************************)
RenderThrows ==
    \/ screen = "results" /\ results = Undefined
    \/ /\ screen = "financialAidResults"
       /\ ~isFindingFinancialAid
       /\ \/ financialAidInfo.kind # "array"
          \/ \E i \in 1..Len(financialAidInfo.items) : financialAidInfo.items[i] = JsonNull

\* App is mounted: its handlers can be called and its state can be set.
Mounted == isAuthenticated /\ ~RenderThrows

\* What a task that shows no dialog and touches no monitoring state leaves alone.
NoAlerts == vitalsAlerts' = <<>> /\ locationAlerts' = <<>>

----------------------------------------------------------------------------
(* AuthGate *)

\* handleLogin with the accepted credentials: App is mounted. Its mount effects
\* change nothing: not linked, and the out of bounds effect finds
\* isOutOfBounds false and leaves its latch false.
Login ==
    /\ ~isAuthenticated
    /\ isAuthenticated' = TRUE
    /\ outOfBoundsAlertShownRef' =
           OutOfBoundsAlertEffect(isOutOfBounds, emergencyContact, outOfBoundsAlertShownRef).shown
    /\ NoAlerts
    /\ UNCHANGED <<screen, isLinked, heartRate, oxygenLevel, emergencyContact, homePosition,
                   currentPosition, isOutOfBounds, vitalsAlertShownRef, intervalId,
                   locationWatchIdRef, alertsInRun, alertsSincePress, readings,
                   lastSessionHome>>
    /\ history' = (IF storedHistory # <<>> THEN storedHistory ELSE history)
    /\ theme' = (IF appTheme # "" THEN appTheme ELSE theme)
    /\ UNCHANGED <<analysisVars, storedHistory, hospitalVars, aidVars, chatVars, appTheme>>

\* Variant: AuthGate hides App instead of unmounting it: no cleanup runs and the
\* state of App is kept for the next login.
LogoutKeepsApp ==
    /\ isAuthenticated
    /\ screen = "welcome"
    /\ isAuthenticated' = FALSE
    /\ NoAlerts
    /\ readings' = 0
    /\ lastSessionHome' = (IF homePosition # Null THEN homePosition ELSE lastSessionHome)
    /\ UNCHANGED <<screen, isLinked, heartRate, oxygenLevel, emergencyContact, homePosition,
                   currentPosition, isOutOfBounds, vitalsAlertShownRef,
                   outOfBoundsAlertShownRef, intervalId, locationWatchIdRef, alertsInRun,
                   alertsSincePress>>
    /\ UNCHANGED searchVars

\* handleLogout (the Logout card of WelcomeScreen): App is unmounted, the cleanups
\* of its effects run and its state is discarded; the next App starts from the
\* initial values.
Logout ==
    /\ isAuthenticated
    /\ screen = "welcome"
    /\ isAuthenticated' = FALSE
    /\ intervalId' = VitalsCleanup(intervalId)
    /\ locationWatchIdRef' = (IF isLinked THEN GpsCleanup(locationWatchIdRef)
                                          ELSE locationWatchIdRef)
    /\ screen' = "welcome"
    /\ isLinked' = FALSE
    /\ heartRate' = 0
    /\ oxygenLevel' = 0
    /\ emergencyContact' = <<>>
    /\ homePosition' = Null
    /\ currentPosition' = Null
    /\ isOutOfBounds' = FALSE
    /\ vitalsAlertShownRef' = FALSE
    /\ outOfBoundsAlertShownRef' = FALSE
    /\ NoAlerts
    /\ alertsInRun' = 0
    /\ alertsSincePress' = 0
    /\ readings' = 0
    /\ lastSessionHome' = (IF homePosition # Null THEN homePosition ELSE lastSessionHome)
    /\ symptoms' = <<>>
    /\ results' = ""
    /\ error' = ""
    /\ analysisRequest' = FALSE
    /\ history' = <<>>
    /\ budget' = <<>>
    /\ hospitals' = <<>>
    /\ isFindingHospitals' = FALSE
    /\ hospitalError' = ""
    /\ hospitalRequest' = "none"
    /\ hospitalResponse' = <<>>
    /\ financialAidQuery' = <<>>
    /\ financialAidInfo' = Array(<<>>)
    /\ financialAidError' = ""
    /\ isFindingFinancialAid' = FALSE
    /\ aidRequests' = {}
    /\ aidCalls' = 0
    /\ aidResponse' = <<>>
    /\ chatHistory' = <<>>
    /\ isAssistantTyping' = FALSE
    /\ chatRequests' = <<>>
    /\ theme' = "default"
    /\ UNCHANGED <<storedHistory, appTheme>>

----------------------------------------------------------------------------
(* Navigation between the welcome screen and the smartwatch screen *)

\* WelcomeScreen: onNavigate('smartwatch')
NavigateSmartwatch ==
    /\ isAuthenticated
    /\ screen = "welcome"
    /\ screen' = "smartwatch"
    /\ NoAlerts
    /\ UNCHANGED <<isAuthenticated, isLinked, heartRate, oxygenLevel, emergencyContact,
                   homePosition, currentPosition, isOutOfBounds, vitalsAlertShownRef,
                   outOfBoundsAlertShownRef, intervalId, locationWatchIdRef, alertsInRun,
                   alertsSincePress, readings, lastSessionHome>>
    /\ UNCHANGED searchVars

\* SmartwatchScreen: onBackToHome
BackToHome ==
    /\ isAuthenticated
    /\ screen = "smartwatch"
    /\ screen' = "welcome"
    /\ NoAlerts
    /\ UNCHANGED <<isAuthenticated, isLinked, heartRate, oxygenLevel, emergencyContact,
                   homePosition, currentPosition, isOutOfBounds, vitalsAlertShownRef,
                   outOfBoundsAlertShownRef, intervalId, locationWatchIdRef, alertsInRun,
                   alertsSincePress, readings, lastSessionHome>>
    /\ UNCHANGED searchVars

----------------------------------------------------------------------------
(* Monitoring *)

\* An effect runs after a render only if one of its dependencies changed.
VitalsAlertRun(changed, linked, contact, hr, ox, shown) ==
    IF changed THEN VitalsAlertEffect(linked, contact, hr, ox, shown)
               ELSE [alerts |-> <<>>, shown |-> shown]

OutOfBoundsAlertRun(changed, oob, contact, shown) ==
    IF changed THEN OutOfBoundsAlertEffect(oob, contact, shown)
               ELSE [alerts |-> <<>>, shown |-> shown]

(***************************************************************************)
(* SmartwatchScreen: onLink = setIsLinked(true).  First render: isLinked   *)
(* is true and the reading is still the one in state.  The vitals          *)
(* simulation effect clears the vitals latch, draws the first reading hr,  *)
(* ox and starts the interval; the vitals alert effect runs on the reading *)
(* of this render; the GPS effect clears the location latch and the home   *)
(* and subscribes.  Second render: the drawn reading; the vitals alert     *)
(* effect runs again if the reading changed.                               *)
(***************************************************************************)
Link(hrs, oxs) ==
    /\ isAuthenticated
    /\ screen = "smartwatch"
    /\ ~isLinked
    /\ \E hr \in hrs, ox \in oxs :
        LET first  == VitalsAlertEffect(TRUE, emergencyContact, heartRate, oxygenLevel, FALSE)
            second == VitalsAlertRun(hr # heartRate \/ ox # oxygenLevel, TRUE,
                                     emergencyContact, hr, ox, first.shown)
            shown  == first.alerts \o second.alerts
        IN  /\ isLinked' = TRUE
            /\ heartRate' = hr
            /\ oxygenLevel' = ox
            /\ intervalId' = 1
            /\ vitalsAlertShownRef' = second.shown
            /\ vitalsAlerts' = shown
            /\ alertsInRun' = RunCount(alertsInRun, TRUE, hr, ox, Len(shown))
            /\ alertsSincePress' = RunCount(alertsSincePress, TRUE, hr, ox, Len(shown))
    /\ outOfBoundsAlertShownRef' = FALSE
    /\ homePosition' = Null
    /\ locationWatchIdRef' = 1
    /\ locationAlerts' = <<>>
    /\ UNCHANGED <<isAuthenticated, screen, emergencyContact, currentPosition,
                   isOutOfBounds, readings, lastSessionHome>>
    /\ UNCHANGED searchVars

\* The interval callback of the vitals simulation effect, with the draws dhr, dox.
\* A state setter of an unmounted component does nothing.
Tick(hrSteps, oxSteps) ==
    /\ intervalId # 0
    /\ \E dhr \in hrSteps, dox \in oxSteps :
        LET hr  == IF isAuthenticated THEN Clamp(50, 130, heartRate + dhr) ELSE heartRate
            ox  == IF isAuthenticated THEN Clamp(90, 100, oxygenLevel + dox) ELSE oxygenLevel
            run == VitalsAlertRun(hr # heartRate \/ ox # oxygenLevel, isLinked,
                                  emergencyContact, hr, ox, vitalsAlertShownRef)
        IN  /\ heartRate' = hr
            /\ oxygenLevel' = ox
            /\ vitalsAlertShownRef' = run.shown
            /\ vitalsAlerts' = run.alerts
            /\ alertsInRun' = RunCount(alertsInRun, isLinked, hr, ox, Len(run.alerts))
            /\ alertsSincePress' = RunCount(alertsSincePress, isLinked, hr, ox, Len(run.alerts))
    /\ locationAlerts' = <<>>
    /\ UNCHANGED <<isAuthenticated, screen, isLinked, emergencyContact, homePosition,
                   currentPosition, isOutOfBounds, outOfBoundsAlertShownRef, intervalId,
                   locationWatchIdRef, readings, lastSessionHome>>
    /\ UNCHANGED searchVars

\* handleSimulateAbnormal; the button is disabled while emergencyContact.trim() is empty.
SimulateAbnormal ==
    /\ isAuthenticated
    /\ screen = "smartwatch"
    /\ isLinked
    /\ Trim(emergencyContact) # <<>>
    /\ \E draw \in {"heartRate", "oxygenLevel"} :
        LET hr  == IF draw = "heartRate" THEN 125 ELSE heartRate
            ox  == IF draw = "oxygenLevel" THEN 91 ELSE oxygenLevel
            run == VitalsAlertRun(hr # heartRate \/ ox # oxygenLevel, isLinked,
                                  emergencyContact, hr, ox, FALSE)
        IN  /\ heartRate' = hr
            /\ oxygenLevel' = ox
            /\ vitalsAlertShownRef' = run.shown
            /\ vitalsAlerts' = run.alerts
            /\ alertsInRun' = RunCount(alertsInRun, isLinked, hr, ox, Len(run.alerts))
            /\ alertsSincePress' = RunCount(0, isLinked, hr, ox, Len(run.alerts))
    /\ locationAlerts' = <<>>
    /\ UNCHANGED <<isAuthenticated, screen, isLinked, emergencyContact, homePosition,
                   currentPosition, isOutOfBounds, outOfBoundsAlertShownRef, intervalId,
                   locationWatchIdRef, readings, lastSessionHome>>
    /\ UNCHANGED searchVars

\* The success callback of watchPosition, with a reading at latitude lat.
PositionUpdate(lats) ==
    /\ locationWatchIdRef # 0
    /\ \E lat \in lats :
        LET newCurrentPos == Position(lat, 0)
            home     == HomeOf(homePosition, newCurrentPos)
            distance == calculateDistance(home[1].lat, home[1].lon,
                                          newCurrentPos[1].lat, newCurrentPos[1].lon)
            oob      == OutOfBounds(distance)
            run      == OutOfBoundsAlertRun(oob # isOutOfBounds, oob, emergencyContact,
                                            outOfBoundsAlertShownRef)
        IN  IF isAuthenticated
            THEN /\ currentPosition' = newCurrentPos
                 /\ homePosition' = home
                 /\ isOutOfBounds' = oob
                 /\ outOfBoundsAlertShownRef' = run.shown
                 /\ locationAlerts' = run.alerts
                 /\ readings' = Min(CountCap, readings + 1)
            ELSE /\ locationAlerts' = <<>>
                 /\ UNCHANGED <<currentPosition, homePosition, isOutOfBounds,
                                outOfBoundsAlertShownRef, readings>>
    /\ vitalsAlerts' = <<>>
    /\ UNCHANGED <<isAuthenticated, screen, isLinked, heartRate, oxygenLevel,
                   emergencyContact, vitalsAlertShownRef, intervalId, locationWatchIdRef,
                   alertsInRun, alertsSincePress, lastSessionHome>>
    /\ UNCHANGED searchVars

\* An error callback that forgets the home.
PositionErrorDropsHome ==
    /\ locationWatchIdRef # 0
    /\ homePosition' = Null
    /\ NoAlerts
    /\ UNCHANGED <<isAuthenticated, screen, isLinked, heartRate, oxygenLevel,
                   emergencyContact, currentPosition, isOutOfBounds,
                   vitalsAlertShownRef, outOfBoundsAlertShownRef, intervalId,
                   locationWatchIdRef, alertsInRun, alertsSincePress, readings,
                   lastSessionHome>>
    /\ UNCHANGED searchVars

\* The error callback of watchPosition: console.error only.
PositionError ==
    /\ locationWatchIdRef # 0
    /\ NoAlerts
    /\ UNCHANGED <<isAuthenticated, screen, isLinked, heartRate, oxygenLevel,
                   emergencyContact, homePosition, currentPosition, isOutOfBounds,
                   vitalsAlertShownRef, outOfBoundsAlertShownRef, intervalId,
                   locationWatchIdRef, alertsInRun, alertsSincePress, readings,
                   lastSessionHome>>
    /\ UNCHANGED searchVars

\* SmartwatchScreen: onEmergencyContactChange = setEmergencyContact, with a value
\* that differs from the field's. Both alert effects depend on emergencyContact.
SetEmergencyContact(contacts) ==
    /\ isAuthenticated
    /\ screen = "smartwatch"
    /\ isLinked
    /\ \E contact \in contacts \ {emergencyContact} :
        LET vitals   == VitalsAlertEffect(isLinked, contact, heartRate, oxygenLevel,
                                          vitalsAlertShownRef)
            location == OutOfBoundsAlertEffect(isOutOfBounds, contact,
                                               outOfBoundsAlertShownRef)
        IN  /\ emergencyContact' = contact
            /\ vitalsAlertShownRef' = vitals.shown
            /\ vitalsAlerts' = vitals.alerts
            /\ outOfBoundsAlertShownRef' = location.shown
            /\ locationAlerts' = location.alerts
            /\ alertsInRun' = RunCount(alertsInRun, isLinked, heartRate, oxygenLevel,
                                       Len(vitals.alerts))
            /\ alertsSincePress' = RunCount(alertsSincePress, isLinked, heartRate,
                                            oxygenLevel, Len(vitals.alerts))
    /\ UNCHANGED <<isAuthenticated, screen, isLinked, heartRate, oxygenLevel, homePosition,
                   currentPosition, isOutOfBounds, intervalId, locationWatchIdRef, readings,
                   lastSessionHome>>
    /\ UNCHANGED searchVars

----------------------------------------------------------------------------
(* The reconciliation of handleFindHospitals.                               *)
(*                                                                         *)
(* A text is a sequence of tokens.  A token is one character ("A", ".",    *)
(* " ", "\n") or a run of characters the code only treats as a whole: a    *)
(* label with its colon and blank ("HOSPITAL: "), the terminator "---", a  *)
(* placeholder phrase ("Not Specified"), the tail of a rating ("/5 stars").*)

\* The tokens with an upper-case letter.
UpperCased ==
    {"A", "HOSPITAL: ", "CONTACT: ", "BEST DOCTOR: ", "RATING: ", "Not Specified",
     "Not Available", "Dr. "}

\* String.prototype.toLowerCase, for one token.
LowerChar(c) ==
    IF c \notin UpperCased THEN c
    ELSE CASE c = "A" -> "a"
           [] c = "HOSPITAL: " -> "hospital: "
           [] c = "CONTACT: " -> "contact: "
           [] c = "BEST DOCTOR: " -> "best doctor: "
           [] c = "RATING: " -> "rating: "
           [] c = "Not Specified" -> "not specified"
           [] c = "Not Available" -> "not available"
           [] c = "Dr. " -> "dr. "
toLowerCase(s) == [i \in 1..Len(s) |-> LowerChar(s[i])]

\* String.prototype.includes, for a phrase that is one token.
includes(s, phrase) == \E i \in 1..Len(s) : s[i] = phrase

\* The characters of the class [-\/\\^$*+?.()|[\]{}].
RegExpSpecials == {"-", "/", "\\", "^", "$", "*", "+", "?", ".", "(", ")", "|", "[", "]", "{", "}"}

\* hospital.name.replace(/[-\/\\^$*+?.()|[\]{}]/g, '\\$&')
EscapedName(name) ==
    LET escaped[i \in 0..Len(name)] ==
            IF i = 0 THEN <<>>
            ELSE escaped[i - 1] \o (IF name[i] \in RegExpSpecials THEN <<"\\", name[i]>>
                                                                  ELSE <<name[i]>>)
    IN  escaped[Len(name)]

(***************************************************************************)
(* The literal head of a case-insensitive regular expression, matched at   *)
(* text[j]: the index after the match, or 0 if it does not match there.    *)
(* "\\" makes the next character of the source a literal; a bare "." is    *)
(* any character but a line terminator.                                    *)
(***************************************************************************)
RECURSIVE MatchFrom(_, _, _, _)
MatchFrom(source, i, text, j) ==
    IF i > Len(source) THEN j
    ELSE IF j > Len(text) THEN 0
    ELSE IF source[i] = "\\"
        THEN IF LowerChar(text[j]) = LowerChar(source[i + 1])
             THEN MatchFrom(source, i + 2, text, j + 1) ELSE 0
    ELSE IF source[i] = "."
        THEN IF text[j] # "\n" THEN MatchFrom(source, i + 1, text, j + 1) ELSE 0
    ELSE IF LowerChar(text[j]) = LowerChar(source[i])
        THEN MatchFrom(source, i + 1, text, j + 1) ELSE 0

\* The search of a regular expression from left to right: the first index from
\* p on at which the head `source` matches, or 0 if it matches nowhere.
RECURSIVE FirstMatch(_, _, _)
FirstMatch(source, text, p) ==
    IF p > Len(text) THEN 0
    ELSE IF MatchFrom(source, 1, text, p) # 0 THEN p
    ELSE FirstMatch(source, text, p + 1)

\* The first index from q on at which text has the token, compared in lower
\* case; 0 if there is none.
RECURSIVE FirstToken(_, _, _)
FirstToken(lowered, text, q) ==
    IF q > Len(text) THEN 0
    ELSE IF LowerChar(text[q]) = lowered THEN q
    ELSE FirstToken(lowered, text, q + 1)

(***************************************************************************)
(* resultText.match(hospitalBlockRegex) for the regular expression         *)
(* `HOSPITAL: <escaped name>[\s\S]*?---` with the flag i: match[0] of the   *)
(* leftmost match, the header and the shortest text up to a "---"; <<>>    *)
(* for no match (a match is never empty).                                  *)
(***************************************************************************)
hospitalBlock(resultText, name) ==
    LET source == <<"HOSPITAL: ">> \o EscapedName(name)
        p      == FirstMatch(source, resultText, 1)
    IN  IF p = 0 THEN <<>>
        ELSE LET from == MatchFrom(source, 1, resultText, p)
                 end  == FirstToken("---", resultText, from)
             IN  IF end = 0 THEN <<>> ELSE SubSeq(resultText, p, end)

(***************************************************************************)
(* block.match of the label followed by a group of any characters, flag i: *)
(* the capture of the leftmost match, the text after the label up to the   *)
(* end of the line.  <<>> stands for no match and for an empty capture:    *)
(* the code tests `m && m[1]`, which is false for both.                    *)
(***************************************************************************)
fieldMatch(block, label) ==
    LET c == FirstToken(LowerChar(label), block, 1)
    IN  IF c = 0 THEN <<>>
        ELSE LET eol == FirstToken("\n", block, c + 1)
                 end == IF eol = 0 THEN Len(block) ELSE eol - 1
             IN  SubSeq(block, c + 1, end)

\* const randomDoctorNames
randomDoctorNames ==
    <<"Dr. Emily Carter", "Dr. Benjamin Hayes", "Dr. Olivia Chen", "Dr. Jacob Rodriguez",
      "Dr. Sophia Williams", "Dr. Michael Johnson", "Dr. Isabella Martinez",
      "Dr. William Davis">>

\* The decimal digits, for Number.prototype.toFixed.
Digits == <<"0", "1", "2", "3", "4", "5", "6", "7", "8", "9">>

\* x.toFixed(1) of a number below 10 that is `tenths` tenths after rounding.
toFixed1(tenths) == <<Digits[(tenths \div 10) + 1], ".", Digits[(tenths % 10) + 1]>>

\* generateRandomRating for the random value k / RandomGrain: the rating is
\* k / RandomGrain * (5.0 - 3.8) + 3.8, and toFixed(1) rounds it to the nearest tenth.
generateRandomRating(k) ==
    toFixed1((2 * (k * (50 - 38) + 38 * RandomGrain) + RandomGrain) \div (2 * RandomGrain))
        \o <<"/5 stars">>

\* Variant: a contact that is missing stays empty.
ContactOrNotAvailableKept(contact) == contact

\* if (!contact || ... includes('not specified') || ... includes('not available')) contact = 'Not Available'
ContactOrNotAvailable(contact) ==
    IF \/ contact = <<>>
       \/ includes(toLowerCase(contact), "not specified")
       \/ includes(toLowerCase(contact), "not available")
    THEN <<"Not Available">> ELSE contact

\* Variant: 'not available' is a placeholder of the doctor as well.
DoctorOrRandomNameEitherPhrase(bestDoctor, index) ==
    IF \/ bestDoctor = <<>>
       \/ includes(toLowerCase(bestDoctor), "not specified")
       \/ includes(toLowerCase(bestDoctor), "not available")
    THEN <<randomDoctorNames[(index % Len(randomDoctorNames)) + 1]>> ELSE bestDoctor

\* Variant: the pool is indexed by the position in the list, without the remainder.
DoctorOrRandomNameUnwrapped(bestDoctor, index) ==
    IF bestDoctor = <<>> \/ includes(toLowerCase(bestDoctor), "not specified")
    THEN <<randomDoctorNames[Min(index, Len(randomDoctorNames) - 1) + 1]>> ELSE bestDoctor

\* if (!bestDoctor || ... includes('not specified')) bestDoctor = randomDoctorNames[index % length]
DoctorOrRandomName(bestDoctor, index) ==
    IF bestDoctor = <<>> \/ includes(toLowerCase(bestDoctor), "not specified")
    THEN <<randomDoctorNames[(index % Len(randomDoctorNames)) + 1]>> ELSE bestDoctor

\* Variant: the rating is always generated.
RatingOrRandomAlways(rating, k) == generateRandomRating(k)

\* if (!rating || ... includes('not available')) rating = generateRandomRating()
RatingOrRandom(rating, k) ==
    IF rating = <<>> \/ includes(toLowerCase(rating), "not available")
    THEN generateRandomRating(k) ELSE rating

\* Variant: a place without a block in the text is left out.
parsedHospitalsMatchedOnly(hospitalGroundingData, resultText, draws) ==
    LET matched == SelectSeq(hospitalGroundingData,
                             LAMBDA hospital : hospitalBlock(resultText, hospital.name) # <<>>)
    IN  [i \in 1..Len(matched) |->
            LET block == hospitalBlock(resultText, matched[i].name)
            IN  [name       |-> matched[i].name,
                 uri        |-> matched[i].uri,
                 bestDoctor |-> DoctorOrRandomName(Trim(fieldMatch(block, "BEST DOCTOR: ")), i - 1),
                 rating     |-> RatingOrRandom(Trim(fieldMatch(block, "RATING: ")), draws[i]),
                 contact    |-> ContactOrNotAvailable(Trim(fieldMatch(block, "CONTACT: ")))]]

(***************************************************************************)
(* const parsedHospitals = hospitalGroundingData.map((hospital, index) ..): *)
(* draws[i] is the value Math.random() returns if the i-th place needs a   *)
(* generated rating.  The index of the code is i - 1.                      *)
(***************************************************************************)
parsedHospitals(hospitalGroundingData, resultText, draws) ==
    [i \in 1..Len(hospitalGroundingData) |->
        LET hospital == hospitalGroundingData[i]
            block    == hospitalBlock(resultText, hospital.name)
        IN  [name       |-> hospital.name,
             uri        |-> hospital.uri,
             bestDoctor |-> DoctorOrRandomName(Trim(fieldMatch(block, "BEST DOCTOR: ")), i - 1),
             rating     |-> RatingOrRandom(Trim(fieldMatch(block, "RATING: ")), draws[i]),
             contact    |-> ContactOrNotAvailable(Trim(fieldMatch(block, "CONTACT: ")))]]


\* if (hospitalGroundingData.length === 0) setHospitalError(...): the message after
\* the response, given the message before it.
NoHospitalsMessage ==
    "Could not find any suitable hospitals nearby based on the information provided. Please try adjusting your budget or try again later."

\* Variant: an empty list of places is not reported.
hospitalErrorAfterSilent(hospitalGroundingData, previous) == previous

hospitalErrorAfter(hospitalGroundingData, previous) ==
    IF Len(hospitalGroundingData) = 0 THEN NoHospitalsMessage ELSE previous

----------------------------------------------------------------------------
(* The responses of the grounded search *)

\* The most blocks of a narrative, and the most places of a response but for LongHitLists.
MaxBlocks == 2
MaxHits == 2

\* The names in the headers of the narrative.
HeaderNames == {<<"A">>, <<"A", ".">>}

\* The places of the grounding metadata (chunk.maps.title, chunk.maps.uri): the
\* first name is the start of a longer header name, the second one differs from a
\* header name by its case only.
Places == {[name |-> <<"A">>, uri |-> "maps/1"], [name |-> <<"a", ".">>, uri |-> "maps/2"]}

(***************************************************************************)
(* The lines a block has after its header, each <<>> (no such line) or     *)
(* <<the text after the label>>.  The values of a "real" block carry the   *)
(* name of its header; a "placeholder" block has a placeholder phrase in   *)
(* every line, under the one header the phrases the code replaces and      *)
(* under the other header the other phrase for the doctor and the rating.  *)
(***************************************************************************)
BlockFields(fill, name) ==
    CASE fill = "real" ->
            [contact |-> <<<<" ", "5">> \o name \o <<" ">>>>,
             doctor  |-> <<<<"Dr. ">> \o name>>,
             rating  |-> <<<<"4", ".", "2", "/5 stars">>>>]
      [] fill = "blank" ->
            [contact |-> <<<<>>>>, doctor |-> <<<<" ">>>>, rating |-> <<>>]
      [] OTHER ->
            IF name = <<"A">>
            THEN [contact |-> <<<<"not specified">>>>,
                  doctor  |-> <<<<"Not Specified">>>>,
                  rating  |-> <<<<"Not Available">>>>]
            ELSE [contact |-> <<<<" ", "Not Available">>>>,
                  doctor  |-> <<<<"Not Available">>>>,
                  rating  |-> <<<<"Not Specified">>>>]

\* The blocks of a narrative: with or without the terminating "---".
BlockShapes ==
    {[fill |-> "real", terminated |-> TRUE], [fill |-> "blank", terminated |-> TRUE],
     [fill |-> "placeholder", terminated |-> TRUE], [fill |-> "real", terminated |-> FALSE]}
Blocks ==
    {[name |-> n, fill |-> s.fill, terminated |-> s.terminated] : n \in HeaderNames, s \in BlockShapes}
Narratives == UNION {[1..n -> Blocks] : n \in 0..MaxBlocks}

\* The text of a narrative (response.text).
FieldLine(label, field) == IF field = <<>> THEN <<>> ELSE <<label>> \o field[1] \o <<"\n">>
BlockText(b) ==
    LET f == BlockFields(b.fill, b.name)
    IN  <<"HOSPITAL: ">> \o b.name \o <<"\n">>
            \o FieldLine("CONTACT: ", f.contact)
            \o FieldLine("BEST DOCTOR: ", f.doctor)
            \o FieldLine("RATING: ", f.rating)
            \o (IF b.terminated THEN <<"---", "\n">> ELSE <<>>)
NarrativeText(narrative) ==
    LET text[i \in 0..Len(narrative)] ==
            IF i = 0 THEN <<>> ELSE text[i - 1] \o BlockText(narrative[i])
    IN  text[Len(narrative)]

\* The lists of places of a response: the short lists, and one place repeated
\* once more often than the pool of doctor names is long.
LongHitLists ==
    {[i \in 1..(Len(randomDoctorNames) + 1) |-> [name |-> <<"a", ".">>, uri |-> "maps/2"]]}
HitLists == UNION {[1..n -> Places] : n \in 0..MaxHits} \cup LongHitLists

\* The values Math.random() returns in the reconciliation, for a list of n places.
SomeRandoms == {0, RandomGrain - 1}
RatingDraws(n) ==
    {[i \in 1..n |-> IF i % 2 = 1 THEN d[1] ELSE d[2]] :
        d \in {e \in SomeRandoms \X SomeRandoms : e[1] # e[2]}}

\* The most checks of the history.
MaxChecks == 2

\* The texts of the symptom field, of the analysis and of the budget field.
Symptoms == {<<>>, <<" ">>, <<"s">>}
AnalysisTexts == {"analysis"}
Budgets == {<<>>, <<"5">>}

----------------------------------------------------------------------------
(* The symptom check and the hospital finder *)

\* WelcomeScreen: onNavigate('input')
NavigateInput ==
    /\ Mounted
    /\ screen = "welcome"
    /\ screen' = "input"
    /\ NoAlerts
    /\ UNCHANGED <<isAuthenticated, monitorVars, searchVars>>

\* InputScreen: onSymptomsChange
SetSymptoms(values) ==
    /\ Mounted
    /\ screen = "input"
    /\ symptoms' \in values
    /\ NoAlerts
    /\ UNCHANGED <<isAuthenticated, screen, monitorVars, results, error, analysisRequest,
                   historyVars, hospitalVars, aidVars, chatVars, themeVars>>

\* The test of the symptoms without trim().
AnalyzeSymptomsNoTrim ==
    /\ Mounted
    /\ screen = "input"
    /\ symptoms = <<>> \/ Len(history) < MaxChecks
    /\ IF symptoms = <<>>
       THEN /\ error' = "Please describe your symptoms before analyzing."
            /\ UNCHANGED <<screen, analysisRequest>>
       ELSE /\ error' = ""
            /\ screen' = "loading"
            /\ analysisRequest' = TRUE
    /\ NoAlerts
    /\ UNCHANGED <<isAuthenticated, monitorVars, symptoms, results, historyVars,
                   hospitalVars, aidVars, chatVars, themeVars>>

\* handleAnalyzeSymptoms up to its await.
AnalyzeSymptoms ==
    /\ Mounted
    /\ screen = "input"
    /\ Trim(symptoms) = <<>> \/ Len(history) < MaxChecks
    /\ IF Trim(symptoms) = <<>>
       THEN /\ error' = "Please describe your symptoms before analyzing."
            /\ UNCHANGED <<screen, analysisRequest>>
       ELSE /\ error' = ""
            /\ screen' = "loading"
            /\ analysisRequest' = TRUE
    /\ NoAlerts
    /\ UNCHANGED <<isAuthenticated, monitorVars, symptoms, results, historyVars,
                   hospitalVars, aidVars, chatVars, themeVars>>

\* Variant: the new check is put after the older ones.
AnalysisResponseAppends(texts) ==
    /\ Mounted
    /\ analysisRequest
    /\ \E text \in texts :
        LET updatedHistory == Append(history, [symptoms |-> symptoms, results |-> text])
        IN  /\ results' = text
            /\ history' = updatedHistory
            /\ storedHistory' = updatedHistory
    /\ screen' = "results"
    /\ analysisRequest' = FALSE
    /\ NoAlerts
    /\ UNCHANGED <<isAuthenticated, monitorVars, symptoms, error, hospitalVars, aidVars, chatVars, themeVars>>

\* handleAnalyzeSymptoms after its await, the call fulfilled with the text `text`.
\* The symptoms and the history of its closure are those of the state: the call is
\* issued on the input screen and the loading screen has no control.
AnalysisResponse(texts) ==
    /\ Mounted
    /\ analysisRequest
    /\ \E text \in texts :
        LET updatedHistory == <<[symptoms |-> symptoms, results |-> text]>> \o history
        IN  /\ results' = text
            /\ history' = updatedHistory
            /\ storedHistory' = updatedHistory
    /\ screen' = "results"
    /\ analysisRequest' = FALSE
    /\ NoAlerts
    /\ UNCHANGED <<isAuthenticated, monitorVars, symptoms, error, hospitalVars, aidVars, chatVars, themeVars>>

\* A catch that also clears the symptoms field.
AnalysisFailureClearsSymptoms ==
    /\ Mounted
    /\ analysisRequest
    /\ error' = "There was an issue analyzing your symptoms. Please try again."
    /\ screen' = "input"
    /\ analysisRequest' = FALSE
    /\ symptoms' = <<>>
    /\ NoAlerts
    /\ UNCHANGED <<isAuthenticated, monitorVars, results, historyVars,
                   hospitalVars, aidVars, chatVars, themeVars>>

\* handleAnalyzeSymptoms after its await, the call rejected.
AnalysisFailure ==
    /\ Mounted
    /\ analysisRequest
    /\ error' = "There was an issue analyzing your symptoms. Please try again."
    /\ screen' = "input"
    /\ analysisRequest' = FALSE
    /\ NoAlerts
    /\ UNCHANGED <<isAuthenticated, monitorVars, symptoms, results, historyVars,
                   hospitalVars, aidVars, chatVars, themeVars>>

\* ResultsScreen: onNavigate('hospitalFinder')
NavigateHospitalFinder ==
    /\ Mounted
    /\ screen = "results"
    /\ screen' = "hospitalFinder"
    /\ NoAlerts
    /\ UNCHANGED <<isAuthenticated, monitorVars, searchVars>>

\* HospitalFinderScreen: onBudgetChange; the field is shown with the search form.
SetBudget(values) ==
    /\ Mounted
    /\ screen = "hospitalFinder"
    /\ ~isFindingHospitals
    /\ Len(hospitals) = 0
    /\ budget' \in values
    /\ hospitalResponse' = <<>>
    /\ NoAlerts
    /\ UNCHANGED <<isAuthenticated, screen, monitorVars, analysisVars, historyVars,
                   hospitals, isFindingHospitals, hospitalError, hospitalRequest, aidVars, chatVars, themeVars>>

\* handleFindHospitals(skipBudget) up to getCurrentPosition; the two buttons are
\* shown with the search form.
FindHospitalsWith(skipBudget) ==
    /\ Mounted
    /\ screen = "hospitalFinder"
    /\ ~isFindingHospitals
    /\ Len(hospitals) = 0
    /\ IF ~skipBudget /\ Trim(budget) = <<>>
       THEN /\ hospitalError' = "Please enter your estimated budget, or skip this step."
            /\ UNCHANGED <<hospitals, isFindingHospitals, hospitalRequest>>
       ELSE /\ isFindingHospitals' = TRUE
            /\ hospitalError' = ""
            /\ hospitals' = <<>>
            /\ hospitalRequest' = "locating"
    /\ hospitalResponse' = <<>>
    /\ NoAlerts
    /\ UNCHANGED <<isAuthenticated, screen, monitorVars, analysisVars, historyVars, budget,
                   aidVars, chatVars, themeVars>>

\* The buttons "Find Hospitals" and "Skip for now".
FindHospitals == \E skipBudget \in BOOLEAN : FindHospitalsWith(skipBudget)

\* The success callback of getCurrentPosition up to its await: the search is sent.
HospitalPosition ==
    /\ Mounted
    /\ hospitalRequest = "locating"
    /\ hospitalRequest' = "asking"
    /\ NoAlerts
    /\ UNCHANGED <<isAuthenticated, screen, monitorVars, analysisVars, historyVars, budget,
                   hospitals, isFindingHospitals, hospitalError, hospitalResponse, aidVars, chatVars, themeVars>>

\* The error callback of getCurrentPosition.
HospitalPositionError ==
    /\ Mounted
    /\ hospitalRequest = "locating"
    /\ hospitalError' = "Could not get your location. Please enable location services in your browser settings to find nearby hospitals."
    /\ isFindingHospitals' = FALSE
    /\ hospitalRequest' = "none"
    /\ NoAlerts
    /\ UNCHANGED <<isAuthenticated, screen, monitorVars, analysisVars, historyVars, budget,
                   hospitals, hospitalResponse, aidVars, chatVars, themeVars>>

(***************************************************************************)
(* The success callback of getCurrentPosition after its await, the search  *)
(* fulfilled with the text of `narrative` and the places `hits`: the       *)
(* places are reconciled with the text, or their absence is reported.      *)
(***************************************************************************)
HospitalsResponse(narratives, hitLists) ==
    /\ Mounted
    /\ hospitalRequest = "asking"
    /\ \E narrative \in narratives, hits \in hitLists :
        LET resultText == NarrativeText(narrative)
        IN  /\ \E draws \in RatingDraws(Len(hits)) :
                hospitals' = IF Len(hits) = 0 THEN hospitals
                             ELSE parsedHospitals(hits, resultText, draws)
            /\ hospitalError' = hospitalErrorAfter(hits, hospitalError)
            /\ hospitalResponse' = <<[narrative |-> narrative, resultText |-> resultText,
                                      hospitalGroundingData |-> hits]>>
    /\ isFindingHospitals' = FALSE
    /\ hospitalRequest' = "none"
    /\ NoAlerts
    /\ UNCHANGED <<isAuthenticated, screen, monitorVars, analysisVars, historyVars, budget,
                   aidVars, chatVars, themeVars>>

\* A catch without the finally that clears the flag.
HospitalsFailureKeepsSearching ==
    /\ Mounted
    /\ hospitalRequest = "asking"
    /\ hospitalError' = "An error occurred while searching for hospitals. Please try again."
    /\ hospitalRequest' = "none"
    /\ NoAlerts
    /\ UNCHANGED <<isAuthenticated, screen, monitorVars, analysisVars, historyVars, budget,
                   hospitals, isFindingHospitals, hospitalResponse, aidVars, chatVars, themeVars>>

\* A catch that also shows the hospital finder.
HospitalsFailureShowsFinder ==
    /\ Mounted
    /\ hospitalRequest = "asking"
    /\ hospitalError' = "An error occurred while searching for hospitals. Please try again."
    /\ isFindingHospitals' = FALSE
    /\ hospitalRequest' = "none"
    /\ screen' = "hospitalFinder"
    /\ NoAlerts
    /\ UNCHANGED <<isAuthenticated, monitorVars, analysisVars, historyVars, budget,
                   hospitals, hospitalResponse, aidVars, chatVars, themeVars>>

\* The success callback of getCurrentPosition after its await, the search rejected.
HospitalsFailure ==
    /\ Mounted
    /\ hospitalRequest = "asking"
    /\ hospitalError' = "An error occurred while searching for hospitals. Please try again."
    /\ isFindingHospitals' = FALSE
    /\ hospitalRequest' = "none"
    /\ NoAlerts
    /\ UNCHANGED <<isAuthenticated, screen, monitorVars, analysisVars, historyVars, budget,
                   hospitals, hospitalResponse, aidVars, chatVars, themeVars>>

(***************************************************************************)
(* The success callback of getCurrentPosition after its await, the search  *)
(* fulfilled with a response that has no text (response.text undefined)    *)
(* and the places `hits`: without places their absence is reported, with   *)
(* places resultText.match throws a TypeError, which the catch reports.    *)
(***************************************************************************)
HospitalsResponseWithoutText(hitLists) ==
    /\ Mounted
    /\ hospitalRequest = "asking"
    /\ \E hits \in hitLists :
        hospitalError' = IF Len(hits) = 0 THEN hospitalErrorAfter(hits, hospitalError)
                         ELSE "An error occurred while searching for hospitals. Please try again."
    /\ isFindingHospitals' = FALSE
    /\ hospitalRequest' = "none"
    /\ NoAlerts
    /\ UNCHANGED <<isAuthenticated, screen, monitorVars, analysisVars, historyVars, budget,
                   hospitals, hospitalResponse, aidVars, chatVars, themeVars>>

----------------------------------------------------------------------------
(* The financial aid query *)

\* The most records of a payload.
MaxAidRecords == 3

\* The properties the response schema requires of a record.
AidFields == {"schemeName", "description", "howToAccess", "websiteLink"}

\* The records of a payload: one with every property, and the ones that lack one
\* property or carry it empty.
FullAidRecord == [f \in AidFields |-> "text"]
AidRecords ==
    {FullAidRecord}
        \cup {[f \in AidFields \ {g} |-> "text"] : g \in AidFields}
        \cup {[FullAidRecord EXCEPT ![g] = ""] : g \in AidFields}

\* The lists of records of a payload.
AidPayloads == UNION {[1..n -> AidRecords] : n \in 0..MaxAidRecords}

\* The texts of a response: the serialisations of the lists of records, of a list
\* with null for a record, of null and of an object; a text that is not JSON; and
\* no text at all.
AidTexts ==
    {Serialised(Array(records)) : records \in AidPayloads}
        \cup {Serialised(Array(<<JsonNull>>)), Serialised(JsonNull), Serialised(JsonObject),
              Garbled, NoText}

\* The most calls of handleFindFinancialAid of one App.
MaxAidCalls == 2

\* The texts of the query field.
AidQueries == {<<>>, <<" ">>, <<"q">>}

\* WelcomeScreen: onNavigate('financialAidQuery')
NavigateFinancialAidQuery ==
    /\ Mounted
    /\ screen = "welcome"
    /\ screen' = "financialAidQuery"
    /\ NoAlerts
    /\ UNCHANGED <<isAuthenticated, monitorVars, searchVars>>

\* FinancialAidQueryScreen: onQueryChange
SetFinancialAidQuery(values) ==
    /\ Mounted
    /\ screen = "financialAidQuery"
    /\ financialAidQuery' \in values
    /\ NoAlerts
    /\ UNCHANGED <<isAuthenticated, screen, monitorVars, analysisVars, historyVars,
                   hospitalVars, chatVars, themeVars, financialAidInfo, financialAidError,
                   isFindingFinancialAid, aidRequests, aidCalls, aidResponse>>

\* handleFindFinancialAid up to its await.  The button is disabled while
\* query.trim() is empty, so the handler's own test of the query never fails.
FindFinancialAid ==
    /\ Mounted
    /\ screen = "financialAidQuery"
    /\ Trim(financialAidQuery) # <<>>
    /\ aidCalls < MaxAidCalls
    /\ financialAidError' = ""
    /\ financialAidInfo' = Array(<<>>)
    /\ isFindingFinancialAid' = TRUE
    /\ screen' = "financialAidResults"
    /\ aidCalls' = aidCalls + 1
    /\ aidRequests' = aidRequests \cup {aidCalls + 1}
    /\ aidResponse' = <<>>
    /\ NoAlerts
    /\ UNCHANGED <<isAuthenticated, monitorVars, analysisVars, historyVars, hospitalVars,
                   chatVars, themeVars, financialAidQuery>>

(***************************************************************************)
(* The try block after the await and its catch, for the text of the        *)
(* response: setFinancialAidInfo(JSON.parse(response.text)) stores the     *)
(* parsed payload as it is; a SyntaxError of JSON.parse sets the message.  *)
(* aidInfo and aidError are the values of the state before it.             *)
(***************************************************************************)
AidOutcome(text, aidInfo, aidError) ==
    LET parsed == JSONparse(text)
    IN  IF parsed.threw
        THEN [info |-> aidInfo, error |-> "Sorry, I could not retrieve financial aid information at this time. Please try again later."]
        ELSE [info |-> parsed.value, error |-> aidError]

\* handleFindFinancialAid after its await, the call `call` fulfilled with a
\* response of the text `text`.
AidResponse(texts) ==
    /\ Mounted
    /\ \E call \in aidRequests, text \in texts :
        LET outcome == AidOutcome(text, financialAidInfo, financialAidError)
        IN  /\ financialAidInfo' = outcome.info
            /\ financialAidError' = outcome.error
            /\ aidResponse' = <<[call |-> call, text |-> text]>>
            /\ aidRequests' = aidRequests \ {call}
    /\ isFindingFinancialAid' = FALSE
    /\ NoAlerts
    /\ UNCHANGED <<isAuthenticated, screen, monitorVars, analysisVars, historyVars,
                   hospitalVars, chatVars, themeVars, financialAidQuery, aidCalls>>

\* handleFindFinancialAid after its await, the call `call` rejected.
AidFailure ==
    /\ Mounted
    /\ \E call \in aidRequests :
        /\ aidResponse' = <<[call |-> call, text |-> [kind |-> "rejected"]]>>
        /\ aidRequests' = aidRequests \ {call}
    /\ financialAidError' = "Sorry, I could not retrieve financial aid information at this time. Please try again later."
    /\ isFindingFinancialAid' = FALSE
    /\ NoAlerts
    /\ UNCHANGED <<isAuthenticated, screen, monitorVars, analysisVars, historyVars,
                   hospitalVars, chatVars, themeVars, financialAidQuery, financialAidInfo, aidCalls>>

----------------------------------------------------------------------------
(* Start over *)

\* Variant: starting over also empties the chat.
StartNewCheckClearsChat ==
    /\ Mounted
    /\ screen \in {"input", "results", "hospitalFinder", "financialAidQuery",
                   "financialAidResults"}
    /\ symptoms' = <<>>
    /\ results' = ""
    /\ error' = ""
    /\ budget' = <<>>
    /\ hospitals' = <<>>
    /\ hospitalError' = ""
    /\ screen' = "welcome"
    /\ financialAidInfo' = Array(<<>>)
    /\ financialAidQuery' = <<>>
    /\ financialAidError' = ""
    /\ hospitalResponse' = <<>>
    /\ aidResponse' = <<>>
    /\ chatHistory' = <<>>
    /\ NoAlerts
    /\ UNCHANGED <<isAuthenticated, monitorVars, analysisRequest, historyVars,
                   isFindingHospitals, hospitalRequest, isFindingFinancialAid, aidRequests,
                   aidCalls, isAssistantTyping, chatRequests, themeVars>>

\* startNewCheck: "Back" of InputScreen, "Start a New Check" of ResultsScreen,
\* "Start Over" of HospitalFinderScreen, "Back to Home" of the two aid screens.
\* The calls that are pending stay pending.
StartNewCheck ==
    /\ Mounted
    /\ screen \in {"input", "results", "hospitalFinder", "financialAidQuery",
                   "financialAidResults"}
    /\ symptoms' = <<>>
    /\ results' = ""
    /\ error' = ""
    /\ budget' = <<>>
    /\ hospitals' = <<>>
    /\ hospitalError' = ""
    /\ screen' = "welcome"
    /\ financialAidInfo' = Array(<<>>)
    /\ financialAidQuery' = <<>>
    /\ financialAidError' = ""
    /\ hospitalResponse' = <<>>
    /\ aidResponse' = <<>>
    /\ NoAlerts
    /\ UNCHANGED <<isAuthenticated, monitorVars, analysisRequest, historyVars,
                   isFindingHospitals, hospitalRequest, isFindingFinancialAid, aidRequests,
                   aidCalls, chatVars, themeVars>>

----------------------------------------------------------------------------
(* The health assistant *)

\* The most messages the user sends in one App.
MaxChat == 2

\* The trimmed texts the user sends, and the texts of the replies.
ChatInputs == {"question"}
ChatTexts == {"answer"}

\* The messages of the user in a chat.
UserMessages(chat) == SelectSeq(chat, LAMBDA msg : msg.role = "user")

\* A sequence without its i-th element.
Without(seq, i) == SubSeq(seq, 1, i - 1) \o SubSeq(seq, i + 1, Len(seq))

\* WelcomeScreen: onNavigate('healthAssistant')
NavigateHealthAssistant ==
    /\ Mounted
    /\ screen = "welcome"
    /\ screen' = "healthAssistant"
    /\ NoAlerts
    /\ UNCHANGED <<isAuthenticated, monitorVars, searchVars>>

\* HealthAssistantScreen: onBack
BackFromAssistant ==
    /\ Mounted
    /\ screen = "healthAssistant"
    /\ screen' = "welcome"
    /\ NoAlerts
    /\ UNCHANGED <<isAuthenticated, monitorVars, searchVars>>

\* Variant: the input and the Send button are not disabled while isTyping.
SendChatMessageWhileTyping(messages) ==
    /\ Mounted
    /\ screen = "healthAssistant"
    /\ Len(UserMessages(chatHistory)) < MaxChat
    /\ \E message \in messages :
        LET updatedHistory == Append(chatHistory, [role |-> "user", text |-> message])
        IN  /\ chatHistory' = updatedHistory
            /\ chatRequests' = Append(chatRequests, updatedHistory)
    /\ isAssistantTyping' = TRUE
    /\ NoAlerts
    /\ UNCHANGED <<isAuthenticated, screen, monitorVars, analysisVars, historyVars,
                   hospitalVars, aidVars, themeVars>>

\* handleSubmit with an input that is not blank and handleSendChatMessage up to
\* its await; the input and the Send button are disabled while isTyping.
SendChatMessage(messages) ==
    /\ Mounted
    /\ screen = "healthAssistant"
    /\ ~isAssistantTyping
    /\ Len(UserMessages(chatHistory)) < MaxChat
    /\ \E message \in messages :
        LET updatedHistory == Append(chatHistory, [role |-> "user", text |-> message])
        IN  /\ chatHistory' = updatedHistory
            /\ chatRequests' = Append(chatRequests, updatedHistory)
    /\ isAssistantTyping' = TRUE
    /\ NoAlerts
    /\ UNCHANGED <<isAuthenticated, screen, monitorVars, analysisVars, historyVars,
                   hospitalVars, aidVars, themeVars>>

\* handleSendChatMessage after its await, a call fulfilled with the text `text`.
ChatResponse(texts) ==
    /\ Mounted
    /\ \E i \in 1..Len(chatRequests), text \in texts :
        /\ chatHistory' = Append(chatRequests[i], [role |-> "model", text |-> text])
        /\ chatRequests' = Without(chatRequests, i)
    /\ isAssistantTyping' = FALSE
    /\ NoAlerts
    /\ UNCHANGED <<isAuthenticated, screen, monitorVars, analysisVars, historyVars,
                   hospitalVars, aidVars, themeVars>>

\* handleSendChatMessage after its await, a call rejected.
ChatFailure ==
    /\ Mounted
    /\ \E i \in 1..Len(chatRequests) :
        /\ chatHistory' = Append(chatRequests[i],
                                 [role |-> "model", text |-> "Sorry, I encountered an error. Please try again."])
        /\ chatRequests' = Without(chatRequests, i)
    /\ isAssistantTyping' = FALSE
    /\ NoAlerts
    /\ UNCHANGED <<isAuthenticated, screen, monitorVars, analysisVars, historyVars,
                   hospitalVars, aidVars, themeVars>>

----------------------------------------------------------------------------
(* The theme *)

\* The keys of `themes`.
Themes == {"default", "forest", "sunset"}

\* WelcomeScreen: onNavigate('theme')
NavigateTheme ==
    /\ Mounted
    /\ screen = "welcome"
    /\ screen' = "theme"
    /\ NoAlerts
    /\ UNCHANGED <<isAuthenticated, monitorVars, searchVars>>

\* ThemeScreen: onBack
BackFromTheme ==
    /\ Mounted
    /\ screen = "theme"
    /\ screen' = "welcome"
    /\ NoAlerts
    /\ UNCHANGED <<isAuthenticated, monitorVars, searchVars>>

\* handleSelectTheme: the name is stored, and applyTheme sets the theme.
SelectTheme(names) ==
    /\ Mounted
    /\ screen = "theme"
    /\ \E themeName \in names :
        /\ appTheme' = themeName
        /\ theme' = themeName
    /\ NoAlerts
    /\ UNCHANGED <<isAuthenticated, screen, monitorVars, analysisVars, historyVars,
                   hospitalVars, aidVars, chatVars>>

----------------------------------------------------------------------------
(* Specifications *)

\* Every operation, with the geofence and the sessions in full.
Next ==
    \/ Login
    \/ Logout
    \/ NavigateSmartwatch
    \/ BackToHome
    \/ Link(SomeInitialHeartRates, SomeInitialOxygenLevels)
    \/ Tick(SomeHeartRateSteps, OxygenSteps)
    \/ SimulateAbnormal
    \/ PositionUpdate(Lats)
    \/ PositionError
    \/ SetEmergencyContact(Contacts)

Spec == Init /\ [][Next]_vars

\* One session, with every draw of the vitals simulation.
NextVitals ==
    \/ Login
    \/ NavigateSmartwatch
    \/ BackToHome
    \/ Link(InitialHeartRates, InitialOxygenLevels)
    \/ Tick(HeartRateSteps, OxygenSteps)
    \/ SimulateAbnormal
    \/ PositionUpdate(SomeLats)
    \/ PositionError
    \/ SetEmergencyContact(SomeContacts)

SpecVitals == Init /\ [][NextVitals]_vars

\* One symptom check and the searches of the hospital finder that follow it, with
\* every response of the grounded search.
NextReconcile ==
    \/ Login
    \/ NavigateInput
    \/ SetSymptoms(Symptoms)
    \/ AnalyzeSymptoms
    \/ AnalysisResponse(AnalysisTexts)
    \/ AnalysisFailure
    \/ NavigateHospitalFinder
    \/ SetBudget(Budgets)
    \/ FindHospitals
    \/ HospitalPosition
    \/ HospitalPositionError
    \/ HospitalsResponse(Narratives, HitLists)
    \/ HospitalsFailure

SpecReconcile == Init /\ [][NextReconcile]_vars

\* One financial aid query, with every payload.
NextAid ==
    \/ Login
    \/ NavigateFinancialAidQuery
    \/ SetFinancialAidQuery(AidQueries)
    \/ FindFinancialAid
    \/ AidResponse(AidTexts)
    \/ AidFailure

SpecAid == Init /\ [][NextAid]_vars

\* A few responses of each service, for the sessions in which the calls overlap.
SomeAnalysisTexts == AnalysisTexts \cup {Undefined}
SomeNarratives == {<<[name |-> <<"A">>, fill |-> "real", terminated |-> TRUE]>>}
SomeHitLists == {<<>>, <<[name |-> <<"A">>, uri |-> "maps/1"]>>}
SomeAidTexts == {Serialised(Array(<<FullAidRecord>>)), Serialised(JsonNull), Garbled}
SomeSymptoms == {<<>>, <<"s">>}
SomeBudgets == {<<"5">>}
SomeAidQueries == {<<"q">>}

\* Every search and the chat of one session, with starting over while calls are
\* pending, and a few responses of each service.
NextRequests ==
    \/ Login
    \/ NavigateInput
    \/ SetSymptoms(SomeSymptoms)
    \/ AnalyzeSymptoms
    \/ AnalysisResponse(SomeAnalysisTexts)
    \/ AnalysisFailure
    \/ NavigateHospitalFinder
    \/ SetBudget(SomeBudgets)
    \/ FindHospitals
    \/ HospitalPosition
    \/ HospitalPositionError
    \/ HospitalsResponse(SomeNarratives, SomeHitLists)
    \/ HospitalsResponseWithoutText(SomeHitLists)
    \/ HospitalsFailure
    \/ NavigateFinancialAidQuery
    \/ SetFinancialAidQuery(SomeAidQueries)
    \/ FindFinancialAid
    \/ AidResponse(SomeAidTexts)
    \/ AidFailure
    \/ StartNewCheck
    \/ NavigateHealthAssistant
    \/ BackFromAssistant
    \/ SendChatMessage(ChatInputs)
    \/ ChatResponse(ChatTexts)
    \/ ChatFailure

SpecRequests == Init /\ [][NextRequests]_vars

\* One session in which the geofence watch runs across the symptom checks and the
\* hospital searches, with every way a check and a search end.
NextLocation ==
    \/ Login
    \/ NavigateSmartwatch
    \/ BackToHome
    \/ Link(SomeInitialHeartRates, SomeInitialOxygenLevels)
    \/ PositionUpdate(Lats)
    \/ PositionError
    \/ SetEmergencyContact(SomeContacts)
    \/ NavigateInput
    \/ SetSymptoms(SomeSymptoms)
    \/ AnalyzeSymptoms
    \/ AnalysisResponse(AnalysisTexts)
    \/ AnalysisFailure
    \/ NavigateHospitalFinder
    \/ SetBudget(SomeBudgets)
    \/ FindHospitals
    \/ HospitalPosition
    \/ HospitalPositionError
    \/ HospitalsResponse(SomeNarratives, SomeHitLists)
    \/ HospitalsResponseWithoutText(SomeHitLists)
    \/ HospitalsFailure
    \/ StartNewCheck

SpecLocation == Init /\ [][NextLocation]_vars

\* The three forms of one session, with every text of their fields and starting over.
NextForms ==
    \/ Login
    \/ NavigateInput
    \/ SetSymptoms(Symptoms)
    \/ AnalyzeSymptoms
    \/ AnalysisResponse(AnalysisTexts)
    \/ AnalysisFailure
    \/ NavigateHospitalFinder
    \/ SetBudget(Budgets)
    \/ FindHospitals
    \/ HospitalPosition
    \/ HospitalPositionError
    \/ HospitalsResponse(SomeNarratives, SomeHitLists)
    \/ HospitalsFailure
    \/ NavigateFinancialAidQuery
    \/ SetFinancialAidQuery(AidQueries)
    \/ FindFinancialAid
    \/ AidResponse(SomeAidTexts)
    \/ AidFailure
    \/ StartNewCheck

SpecForms == Init /\ [][NextForms]_vars

\* The symptoms and the analyses of the checks of the sessions below.
SomeCheckSymptoms == {<<>>, <<"s">>, <<"t">>}
SomeCheckTexts == SomeAnalysisTexts \cup {"advice"}

\* The symptom checks of several sessions, the history kept in the store between
\* them.
NextHistory ==
    \/ Login
    \/ Logout
    \/ NavigateInput
    \/ SetSymptoms(SomeCheckSymptoms)
    \/ AnalyzeSymptoms
    \/ AnalysisResponse(SomeCheckTexts)
    \/ AnalysisFailure
    \/ StartNewCheck

SpecHistory == Init /\ [][NextHistory]_vars

\* The themes selected in the session below, its oxygen draws (the level falls) and
\* its position readings (at the point 0 and MaxLat km north of it).
SomeThemes == {"forest"}
FallingOxygenSteps == {-1}
SomeFarLats == {0, MaxLat}

\* One session in which the watch is monitored across the screens: a symptom
\* check, the chat and the theme, with starting over.
NextStartOver ==
    \/ Login
    \/ NavigateSmartwatch
    \/ BackToHome
    \/ Link(SomeInitialHeartRates, SomeInitialOxygenLevels)
    \/ Tick(SomeHeartRateSteps, FallingOxygenSteps)
    \/ PositionUpdate(SomeFarLats)
    \/ SetEmergencyContact(SomeContacts)
    \/ NavigateInput
    \/ SetSymptoms(SomeSymptoms)
    \/ AnalyzeSymptoms
    \/ AnalysisResponse(AnalysisTexts)
    \/ StartNewCheck
    \/ NavigateHealthAssistant
    \/ BackFromAssistant
    \/ SendChatMessage(ChatInputs)
    \/ ChatResponse(ChatTexts)
    \/ NavigateTheme
    \/ SelectTheme(SomeThemes)
    \/ BackFromTheme

SpecStartOver == Init /\ [][NextStartOver]_vars

\* The messages sent in the sessions below.
SomeChatInputs == {"question", "thanks"}

\* The chat of several sessions, with leaving the chat screen for the welcome
\* screen and the theme screen, where a theme is selected, while a reply is pending.
NextChat ==
    \/ Login
    \/ Logout
    \/ NavigateHealthAssistant
    \/ BackFromAssistant
    \/ SendChatMessage(SomeChatInputs)
    \/ ChatResponse(ChatTexts)
    \/ ChatFailure
    \/ NavigateTheme
    \/ SelectTheme(SomeThemes)
    \/ BackFromTheme

SpecChat == Init /\ [][NextChat]_vars

----------------------------------------------------------------------------
(* Properties *)

\* A string with a character that trim() keeps.
NonBlank(contact) == \E i \in 1..Len(contact) : contact[i] \notin WhiteSpace

\* The current reading is one of a run of abnormal readings of a linked watch.
InVitalsEpisode ==
    isLinked /\ (heartRate < 60 \/ heartRate > 100 \/ oxygenLevel < 95)

\* C1 as claimed: at most one vitals alert fires per maximal contiguous run of
\* abnormal readings, for any sequence of ticks, contact edits and presses of
\* Simulate Abnormal Reading.
C1_AtMostOneAlertPerRun == alertsInRun <= 1

\* C1, amended: at most one vitals alert fires per maximal contiguous run of
\* abnormal readings counted from the last press of Simulate Abnormal Reading in
\* that run; ticks and contact edits never cause a second one.
C1_AtMostOneAlertPerRunSincePress == alertsSincePress <= 1

\* C1: a heart rate that only a second abnormal tick in a row reaches (one tick
\* moves it by at most 2 from the limit 100), in a run that raised one alert.
C1_Witness ==
    /\ isLinked
    /\ NonBlank(emergencyContact)
    /\ heartRate = 103
    /\ alertsSincePress = 1
    /\ alertsInRun = 1
    /\ vitalsAlerts = <<>>

\* C2 as claimed: with a non-empty contact, every change of the vitals reading
\* from normal to abnormal fires exactly one vitals alert (the latch re-arms on
\* any normal sample).
C2_EveryEpisodeAlerts ==
    [][ ( /\ isLinked /\ isLinked'
          /\ NonBlank(emergencyContact) /\ NonBlank(emergencyContact')
          /\ ~InVitalsEpisode
          /\ InVitalsEpisode' )
        => Len(vitalsAlerts') = 1 ]_vars

\* C3: with a non-empty contact before and after a task, a location alert is
\* shown by exactly the tasks that change the boundary state from in bounds to
\* out of bounds, and then exactly one.
C3_GeofenceAlertOncePerEpisode ==
    [][ (NonBlank(emergencyContact) /\ NonBlank(emergencyContact'))
        => /\ (locationAlerts' # <<>>) <=> (~isOutOfBounds /\ isOutOfBounds')
           /\ Len(locationAlerts') <= 1 ]_vars

\* C3: a location alert was shown for a reading that left the fence.
C3_Witness ==
    /\ locationAlerts # <<>>
    /\ isOutOfBounds
    /\ outOfBoundsAlertShownRef
    /\ readings = CountCap
    /\ vitalsAlerts = <<>>

\* C4 as claimed: an episode that begins while the contact is empty consumes the
\* latch as it would with a contact set.
C4_LatchConsumedWithoutContact ==
    [][ /\ (~NonBlank(emergencyContact') /\ ~isOutOfBounds /\ isOutOfBounds')
           => outOfBoundsAlertShownRef'
        /\ (~NonBlank(emergencyContact') /\ ~InVitalsEpisode /\ InVitalsEpisode')
           => vitalsAlertShownRef' ]_vars

\* C4, amended: with an empty contact no alert is shown and no latch is
\* consumed; a contact entered later during the episode fires the alert of
\* each kind whose latch is still armed.
C4_EmptyContactLeavesLatchArmed ==
    [][ /\ ~NonBlank(emergencyContact')
           => /\ vitalsAlerts' = <<>>
              /\ locationAlerts' = <<>>
              /\ vitalsAlertShownRef' => vitalsAlertShownRef
              /\ outOfBoundsAlertShownRef' => outOfBoundsAlertShownRef
        /\ ( /\ ~NonBlank(emergencyContact) /\ NonBlank(emergencyContact')
             /\ isOutOfBounds /\ ~outOfBoundsAlertShownRef )
           => Len(locationAlerts') = 1 /\ outOfBoundsAlertShownRef'
        /\ ( /\ ~NonBlank(emergencyContact) /\ NonBlank(emergencyContact')
             /\ InVitalsEpisode /\ ~vitalsAlertShownRef )
           => Len(vitalsAlerts') = 1 /\ vitalsAlertShownRef' ]_vars

\* C4: a contact entered during an episode of each kind fired both alerts.
C4_Witness ==
    /\ vitalsAlerts # <<>>
    /\ locationAlerts # <<>>
    /\ InVitalsEpisode
    /\ isOutOfBounds

\* C5: no alert of either kind is shown while the contact is empty or blank.
C5_NoAlertWithoutContact ==
    /\ \A i \in 1..Len(vitalsAlerts) :
          NonBlank(vitalsAlerts[i].contact) /\ vitalsAlerts[i].contact = emergencyContact
    /\ \A i \in 1..Len(locationAlerts) :
          NonBlank(locationAlerts[i].contact) /\ locationAlerts[i].contact = emergencyContact

\* C5: a blank contact is all that holds back both alerts: both conditions are
\* active and both latches are armed.
C5_Witness ==
    /\ emergencyContact = <<" ">>
    /\ InVitalsEpisode
    /\ isOutOfBounds
    /\ ~vitalsAlertShownRef
    /\ ~outOfBoundsAlertShownRef

\* C6: a vitals alert is shown only while linked, and reports the current
\* reading, which has heartRate < 60, heartRate > 100 or oxygenLevel < 95.
C6_AlertOnlyWhenAbnormal ==
    \A i \in 1..Len(vitalsAlerts) :
        /\ isLinked
        /\ vitalsAlerts[i].heartRate = heartRate
        /\ vitalsAlerts[i].oxygenLevel = oxygenLevel
        /\ (heartRate < 60 \/ heartRate > 100 \/ oxygenLevel < 95)

\* C6: an alert for the first heart rate above the limit.
C6_Witness ==
    /\ vitalsAlerts # <<>>
    /\ heartRate = 101
    /\ oxygenLevel >= 95

\* C7: while App is mounted the home is set once, by the first position reading
\* and to it, and no later task of the session changes it.
C7_HomeSetOnceFromFirstReading ==
    /\ [](readings > 0 => homePosition # Null /\ currentPosition # Null)
    /\ [][ /\ (homePosition = Null /\ homePosition' # Null)
              => readings = 0 /\ readings' = 1 /\ homePosition' = currentPosition'
           /\ (homePosition # Null /\ isAuthenticated')
              => homePosition' = homePosition ]_vars

\* C7: the home was kept while a later reading came from elsewhere.
C7_Witness ==
    /\ readings = CountCap
    /\ homePosition # Null
    /\ currentPosition # homePosition

\* C8: after every position update the boundary state is out of bounds iff the
\* distance from the home to the reading is more than 5 km.
C8_OutOfBoundsIffBeyondFive ==
    currentPosition # Null =>
        /\ homePosition # Null
        /\ isOutOfBounds <=>
               calculateDistance(homePosition[1].lat, homePosition[1].lon,
                                 currentPosition[1].lat, currentPosition[1].lon) > 5

\* C8: a reading exactly 5 km from the home is in bounds.
C8_Witness ==
    /\ homePosition # Null
    /\ currentPosition # Null
    /\ Abs(currentPosition[1].lat - homePosition[1].lat) = 5
    /\ ~isOutOfBounds

\* C9: after a logout and a new login the home is unset and the user in bounds
\* until the first reading of the new session, which becomes the home.
C9_HomeReestablishedAfterRestart ==
    /\ [](lastSessionHome # Null /\ readings = 0 => homePosition = Null /\ ~isOutOfBounds)
    /\ [][ (lastSessionHome # Null /\ readings = 0 /\ readings' = 1)
           => homePosition' = currentPosition' /\ ~isOutOfBounds' ]_vars

\* C9: the new session is out of bounds at the point that was the last session's
\* home: the boundary state is computed from the new home.
C9_Witness ==
    /\ lastSessionHome # Null
    /\ homePosition # Null
    /\ homePosition # lastSessionHome
    /\ currentPosition = lastSessionHome
    /\ isOutOfBounds

\* C10: once App is unmounted the interval is cleared and the position watch
\* is unsubscribed, so neither callback runs again, and no alert is shown.
C10_StopCancelsMonitoring ==
    ~isAuthenticated =>
        /\ intervalId = 0
        /\ locationWatchIdRef = 0
        /\ vitalsAlerts = <<>>
        /\ locationAlerts = <<>>
        /\ ~isLinked

\* C10: a session that had established a home was stopped.
C10_Witness ==
    /\ ~isAuthenticated
    /\ lastSessionHome # Null

\* The reading of a linked watch is within the limits of the simulation.
InRange(hr, ox) == 50 <= hr /\ hr <= 130 /\ 90 <= ox /\ ox <= 100

\* C11: whenever the reading of a linked watch satisfies 50 <= heartRate <= 130 and
\* 90 <= oxygenLevel <= 100, the reading after any one step of the monitoring (a
\* tick with any draw, a press of 'Simulate Abnormal Reading') satisfies them again.
C11_ReadingStaysInRange ==
    [][(isLinked /\ isLinked' /\ InRange(heartRate, oxygenLevel))
            => InRange(heartRate', oxygenLevel')]_vars

\* C11's case: the reading stands at the upper heart rate limit and the lower oxygen
\* limit, from where the draws +1, +2 and -1 of the next tick are clamped.
C11_Witness ==
    isLinked /\ heartRate = 130 /\ oxygenLevel = 90

\* C12: the reading drawn when monitoring starts has a heart rate in [70, 95] and
\* an oxygen level in [96, 100], whatever Math.random() returns.
C12_InitialReadingInRange ==
    [][(~isLinked /\ isLinked')
            => /\ heartRate' \in Int /\ 70 <= heartRate' /\ heartRate' <= 95
               /\ oxygenLevel' \in Int /\ 96 <= oxygenLevel' /\ oxygenLevel' <= 100]_vars

\* C12's case: monitoring has started with the largest heart rate and the largest
\* oxygen level of the draw, and no tick has moved the reading beyond them.
C12_Witness ==
    isLinked /\ heartRate = 95 /\ oxygenLevel = 100 /\ emergencyContact = <<>>

----------------------------------------------------------------------------
(* Properties of the reconciliation.  They speak of the state after a task *)
(* that reconciled a response: hospitalResponse holds the narrative and    *)
(* the places of that response, hospitals the outcome.                     *)

Reconciled == hospitalResponse # <<>>
ResponseHits == hospitalResponse[1].hospitalGroundingData
ResponseNarrative == hospitalResponse[1].narrative
ResponseText == hospitalResponse[1].resultText

\* The header of block b names the place hit: the names are equal but for their case.
Names(b, hit) == toLowerCase(b.name) = toLowerCase(hit.name)

\* Block k is the first block of the narrative whose header names the place hit.
FirstBlockOf(narrative, k, hit) ==
    /\ Names(narrative[k], hit)
    /\ \A j \in 1..(k - 1) : ~Names(narrative[j], hit)

\* A value that is neither empty nor a placeholder.
RealValue(v) ==
    /\ v # <<>>
    /\ ~includes(toLowerCase(v), "not specified")
    /\ ~includes(toLowerCase(v), "not available")

\* C13: after a response was reconciled, hospitals has as many entries as the
\* response has places, and its i-th entry carries the name and the URI of the
\* i-th place.
C13_OrderAndCountPreserved ==
    Reconciled =>
        /\ Len(hospitals) = Len(ResponseHits)
        /\ \A i \in 1..Len(ResponseHits) :
            /\ hospitals[i].name = ResponseHits[i].name
            /\ hospitals[i].uri = ResponseHits[i].uri

\* C13's case: two different places, the first of them without a block of its own
\* in a narrative of two blocks that are in the other order.
C13_Witness ==
    /\ Reconciled
    /\ Len(ResponseHits) = 2
    /\ ResponseHits[1].name = <<"a", ".">>
    /\ ResponseHits[2].name = <<"A">>
    /\ Len(ResponseNarrative) = 2
    /\ ResponseNarrative[1].name = <<"A">>
    /\ ResponseNarrative[2].name = <<"A">>
    /\ hospitals[1].uri = "maps/2"
    /\ hospitals[2].uri = "maps/1"

\* C14: every entry of hospitals has a non-empty contact, a non-empty bestDoctor
\* and a non-empty rating.
C14_FieldsNeverEmpty ==
    \A i \in 1..Len(hospitals) :
        /\ hospitals[i].contact # <<>>
        /\ hospitals[i].bestDoctor # <<>>
        /\ hospitals[i].rating # <<>>

\* C14's case: the block of the place has a CONTACT line with nothing after the
\* label, a BEST DOCTOR line with a blank after it and no RATING line.
C14_Witness ==
    /\ Reconciled
    /\ Len(ResponseHits) = 1
    /\ Len(ResponseNarrative) = 1
    /\ Names(ResponseNarrative[1], ResponseHits[1])
    /\ ResponseNarrative[1].fill = "blank"
    /\ ResponseNarrative[1].terminated
    /\ hospitals[1].contact = <<"Not Available">>

\* C15: if the first block whose header names the i-th place has CONTACT, BEST
\* DOCTOR and RATING lines with real values and ends with "---", the i-th entry
\* of hospitals carries these three values, trimmed.
C15_CompleteBlockIsCarried ==
    Reconciled =>
        \A i \in 1..Len(ResponseHits) : \A k \in 1..Len(ResponseNarrative) :
            LET b == ResponseNarrative[k]
                f == BlockFields(b.fill, b.name)
            IN  (/\ FirstBlockOf(ResponseNarrative, k, ResponseHits[i])
                 /\ b.terminated
                 /\ f.contact # <<>> /\ RealValue(Trim(f.contact[1]))
                 /\ f.doctor # <<>> /\ RealValue(Trim(f.doctor[1]))
                 /\ f.rating # <<>> /\ RealValue(Trim(f.rating[1])))
                => /\ hospitals[i].contact = Trim(f.contact[1])
                   /\ hospitals[i].bestDoctor = Trim(f.doctor[1])
                   /\ hospitals[i].rating = Trim(f.rating[1])

C17_FieldsFromOwnBlockOnly ==
    Reconciled =>
        \A i \in 1..Len(hospitals) :
            hospitals[i].contact # <<"Not Available">>
            => \E k \in 1..Len(ResponseNarrative) :
                LET b == ResponseNarrative[k]
                    f == BlockFields(b.fill, b.name)
                IN  /\ Names(b, ResponseHits[i])
                    /\ f.contact # <<>>
                    /\ hospitals[i].contact = Trim(f.contact[1])

\* C18 as claimed: a response without places leaves hospitals empty and sets no
\* error message.
C18_NoHitsIsNoError ==
    (Reconciled /\ Len(ResponseHits) = 0) => (hospitals = <<>> /\ hospitalError = "")

\* C18 as the code has it: a response without places leaves hospitals empty, ends
\* the search and sets the message that no suitable hospital was found.
C18_NoHitsSetsMessage ==
    (Reconciled /\ Len(ResponseHits) = 0)
        => /\ hospitals = <<>>
           /\ ~isFindingHospitals
           /\ hospitalError = "Could not find any suitable hospitals nearby based on the information provided. Please try adjusting your budget or try again later."

\* C18's case: a response with a narrative of two blocks and no place.
C18_Witness ==
    /\ Reconciled
    /\ Len(ResponseHits) = 0
    /\ Len(ResponseNarrative) = 2
    /\ hospitalError # ""

\* C19: a second reconciliation of the same text and the same places, with any
\* other values of Math.random(), gives every place the contact it has in
\* hospitals, and the bestDoctor and the rating it has in hospitals wherever the
\* block found for the place supplies a real value for them.
C19_ExtractionDeterministic ==
    Reconciled =>
        \A draws \in RatingDraws(Len(ResponseHits)) :
            LET second == parsedHospitals(ResponseHits, ResponseText, draws)
            IN  \A i \in 1..Len(hospitals) :
                    LET again == second[i]
                        block == hospitalBlock(ResponseText, ResponseHits[i].name)
                    IN  /\ again.contact = hospitals[i].contact
                        /\ RealValue(Trim(fieldMatch(block, "BEST DOCTOR: ")))
                            => again.bestDoctor = hospitals[i].bestDoctor
                        /\ RealValue(Trim(fieldMatch(block, "RATING: ")))
                            => again.rating = hospitals[i].rating

\* C19's case: of two places the first has a block with a real rating and the
\* second none, so that the second one's rating is the highest the generator draws.
C19_Witness ==
    /\ Reconciled
    /\ Len(ResponseHits) = 2
    /\ RealValue(Trim(fieldMatch(hospitalBlock(ResponseText, ResponseHits[1].name), "RATING: ")))
    /\ hospitalBlock(ResponseText, ResponseHits[2].name) = <<>>
    /\ hospitals[1].rating = <<"4", ".", "2", "/5 stars">>
    /\ hospitals[2].rating = generateRandomRating(RandomGrain - 1)

\* C28: of the values extracted from the block found for a place, a contact that
\* is empty or holds 'not specified' or 'not available' becomes "Not Available", a
\* doctor that is empty or holds 'not specified' becomes the pool entry of the
\* place's index, a rating that is empty or holds 'not available' becomes a rating
\* of the generator, and every other value is carried as it was extracted.
C28_PlaceholdersBecomeFallbacks ==
    Reconciled =>
        \A i \in 1..Len(hospitals) :
            LET block   == hospitalBlock(ResponseText, ResponseHits[i].name)
                contact == Trim(fieldMatch(block, "CONTACT: "))
                doctor  == Trim(fieldMatch(block, "BEST DOCTOR: "))
                rating  == Trim(fieldMatch(block, "RATING: "))
            IN  /\ hospitals[i].contact =
                      IF \/ contact = <<>>
                         \/ includes(toLowerCase(contact), "not specified")
                         \/ includes(toLowerCase(contact), "not available")
                      THEN <<"Not Available">> ELSE contact
                /\ hospitals[i].bestDoctor =
                      IF doctor = <<>> \/ includes(toLowerCase(doctor), "not specified")
                      THEN <<randomDoctorNames[((i - 1) % 8) + 1]>> ELSE doctor
                /\ IF rating = <<>> \/ includes(toLowerCase(rating), "not available")
                   THEN \E k \in Randoms : hospitals[i].rating = generateRandomRating(k)
                   ELSE hospitals[i].rating = rating

\* C28's case: the block of the place says 'Not Available' for the contact and for
\* the doctor and 'Not Specified' for the rating; the doctor and the rating are
\* carried as they are.
C28_Witness ==
    /\ Reconciled
    /\ Len(ResponseHits) = 1
    /\ Len(ResponseNarrative) = 1
    /\ Names(ResponseNarrative[1], ResponseHits[1])
    /\ ResponseNarrative[1].fill = "placeholder"
    /\ hospitals[1].contact = <<"Not Available">>
    /\ hospitals[1].bestDoctor = <<"Not Available">>
    /\ hospitals[1].rating = <<"Not Specified">>

\* The labels 'X.Y/5 stars' from 3.8 to 4.9.
RatingLabelsBelowFive == {toFixed1(tenths) \o <<"/5 stars">> : tenths \in 38..49}

\* C29: a rating the generator gave (the block found for the place supplies none,
\* or 'not available') is one of the labels '3.8/5 stars' to '4.9/5 stars'.
C29_GeneratedRatingBelowFive ==
    Reconciled =>
        \A i \in 1..Len(hospitals) :
            LET block  == hospitalBlock(ResponseText, ResponseHits[i].name)
                rating == Trim(fieldMatch(block, "RATING: "))
            IN  (rating = <<>> \/ includes(toLowerCase(rating), "not available"))
                    => hospitals[i].rating \in RatingLabelsBelowFive

----------------------------------------------------------------------------
(* Properties of the financial aid query *)

\* A record with every required property present and non-empty.
WellFormedAidRecord(r) == \A f \in AidFields : f \in DOMAIN r /\ r[f] # ""

\* The outcome of the call the last task ended: the text of its response, or
\* the mark of a rejected call.
AidEnded == aidResponse # <<>>
EndedAidText == aidResponse[1].text
IsListText(text) == text.kind = "json" /\ text.value.kind = "array"

\* C20: after a payload that is a list was received, the accepted aid list holds
\* the records of the payload that have the four required properties non-empty, in
\* their order, and no other record.
C20_OnlyWellFormedRecordsAccepted ==
    (AidEnded /\ IsListText(EndedAidText))
        => financialAidInfo = Array(SelectSeq(EndedAidText.value.items, WellFormedAidRecord))

\* C21: after an aid query that ended with a rejected call, or with a response
\* whose text is missing, is not JSON or is JSON of something that is no list, the
\* error message is not empty, the aid list is the empty list and the loading flag
\* is false.
C21_FailedAidQueryEndsInError ==
    (AidEnded /\ aidRequests = {} /\ ~IsListText(EndedAidText))
        => /\ financialAidError # ""
           /\ financialAidInfo = Array(<<>>)
           /\ ~isFindingFinancialAid

\* C27: whatever the services respond, App stays mounted: rendering the current
\* screen does not throw.
C27_NoResponseIsFatal == isAuthenticated => ~RenderThrows

----------------------------------------------------------------------------
(* Properties of the requests *)

\* C22: the completion of a financial aid call that is no longer the latest one
\* issued leaves the aid list, the aid error and the loading flag as they are.
C22_SupersededAidCallIsIgnored ==
    [][\A call \in aidRequests :
          (call \notin aidRequests' /\ call < aidCalls)
              => UNCHANGED <<financialAidInfo, financialAidError, isFindingFinancialAid>>]_vars

\* The calls of each kind that are pending.
PendingAnalyses == IF analysisRequest THEN 1 ELSE 0
PendingHospitalSearches == IF hospitalRequest # "none" THEN 1 ELSE 0
PendingAidCalls == Cardinality(aidRequests)
PendingChatCalls == Len(chatRequests)

\* C23: there is never more than one pending call of the analysis, of the hospital
\* search, of the financial aid query and of the chat.
C23_AtMostOnePendingCallOfEachKind ==
    /\ PendingAnalyses <= 1
    /\ PendingHospitalSearches <= 1
    /\ PendingAidCalls <= 1
    /\ PendingChatCalls <= 1

\* C24: when the analysis call fails, the loading screen gives way to the input
\* screen with an error message, and the symptoms, the results and the history, in
\* memory and in the store, are what they were.
C24_AnalysisFailureKeepsTheInput ==
    [][(screen = "loading" /\ screen' \notin {"loading", "results"})
          => /\ screen' = "input"
             /\ error' # ""
             /\ UNCHANGED <<symptoms, results, history, storedHistory>>]_vars

\* C24: a check failed after an earlier one was recorded; its symptoms are still
\* in the field.
C24_Witness ==
    /\ screen = "input"
    /\ error = "There was an issue analyzing your symptoms. Please try again."
    /\ Trim(symptoms) # <<>>
    /\ Len(history) > 0
    /\ storedHistory = history

\* C25: with blank symptoms no analysis is requested, and pressing Analyze changes
\* nothing but the error message; pressing Find Hospitals with an empty budget sends
\* no search and changes nothing but the hospital error message; with a blank query
\* no financial aid call is issued.
C25_InvalidInputIssuesNoRequest ==
    [][ /\ (screen = "input" /\ Trim(symptoms) = <<>>)
              => (screen' # "loading" /\ ~analysisRequest')
        /\ (AnalyzeSymptoms /\ Trim(symptoms) = <<>>)
              => /\ error' # ""
                 /\ UNCHANGED <<isAuthenticated, screen, monitorVars, symptoms, results,
                                analysisRequest, historyVars, hospitalVars, aidVars,
                                chatVars, themeVars>>
        /\ (FindHospitalsWith(FALSE) /\ Trim(budget) = <<>>)
              => /\ hospitalError' # ""
                 /\ UNCHANGED <<isAuthenticated, screen, monitorVars, analysisVars,
                                historyVars, budget, hospitals, isFindingHospitals,
                                hospitalRequest, aidVars, chatVars, themeVars>>
        /\ (screen = "financialAidQuery" /\ Trim(financialAidQuery) = <<>>)
              => /\ aidCalls' = aidCalls
                 /\ aidRequests' \subseteq aidRequests
                 /\ screen' # "financialAidResults" ]_vars

\* C25: Analyze was pressed with symptoms of blanks only, after an earlier check.
C25_Witness ==
    /\ screen = "input"
    /\ symptoms = <<" ">>
    /\ error = "Please describe your symptoms before analyzing."
    /\ Len(history) > 0

\* C26: a step in which no position reading arrives (a position error of the watch
\* among them) leaves the home and the boundary state as they are and shows no
\* out-of-bounds alert, unless the contact is edited or the watch is linked; and when
\* the position for a hospital search cannot be had, the hospital error is set, no
\* hospital is listed, the searching flag is cleared and no search is sent.
C26_PositionErrorChangesNoGeofence ==
    [][ /\ ( /\ currentPosition' = currentPosition
             /\ emergencyContact' = emergencyContact
             /\ isLinked' = isLinked )
           => /\ homePosition' = homePosition
              /\ isOutOfBounds' = isOutOfBounds
              /\ locationAlerts' = <<>>
        /\ (hospitalRequest = "locating" /\ hospitalRequest' \notin {"locating", "asking"})
           => /\ hospitalRequest' = "none"
              /\ hospitalError' # ""
              /\ hospitals' = <<>>
              /\ ~isFindingHospitals' ]_vars

\* C26: the position for a hospital search could not be had while the watch is
\* subscribed, the home is set and the user is beyond the boundary.
C26_Witness ==
    /\ locationWatchIdRef # 0
    /\ homePosition # Null
    /\ isOutOfBounds
    /\ screen = "hospitalFinder"
    /\ hospitalError = "Could not get your location. Please enable location services in your browser settings to find nearby hospitals."
    /\ hospitalRequest = "none"

\* HospitalFinderScreen shows the search form and its two buttons.
SearchFormShown == ~isFindingHospitals /\ Len(hospitals) = 0

\* C30: when the hospital search ends without a response that was reconciled (the
\* call rejected, or the response without text), the hospital error is set, no
\* hospital is listed, the searching flag is cleared and the search form is shown.
C30_FailedSearchShowsTheFormAgain ==
    [][(hospitalRequest = "asking" /\ hospitalRequest' = "none" /\ hospitalResponse' = <<>>)
          => /\ hospitalError' # ""
             /\ hospitals' = <<>>
             /\ ~isFindingHospitals'
             /\ SearchFormShown']_vars

\* C30: a search was rejected and the form is shown for another one.
C30_Witness ==
    /\ screen = "hospitalFinder"
    /\ hospitalError = "An error occurred while searching for hospitals. Please try again."
    /\ hospitalRequest = "none"
    /\ SearchFormShown

----------------------------------------------------------------------------
(* Properties of the monitoring across the screens *)

\* C31: every vitals alert that is shown reports a reading with
\* 50 <= heartRate <= 130 and 90 <= oxygenLevel <= 100; the reading 0, 0 of the
\* state before the first draw is never reported.
C31_AlertNeverReportsPlaceholder ==
    \A i \in 1..Len(vitalsAlerts) :
        InRange(vitalsAlerts[i].heartRate, vitalsAlerts[i].oxygenLevel)

\* C31: an alert that reports the highest heart rate of the simulation.
C31_Witness ==
    /\ vitalsAlerts # <<>>
    /\ vitalsAlerts[1].heartRate = 130
    /\ vitalsAlerts[1].oxygenLevel >= 95

\* C32: every press of Simulate Abnormal Reading shows one vitals alert in its own
\* task, before any tick.
C32_PressIsAnsweredByAlert ==
    [][SimulateAbnormal => Len(vitalsAlerts') = 1]_vars

\* C33: the first position reading of a session is its own home and is in bounds:
\* out of bounds implies that the home is set and that two readings or more were
\* received, and no location alert is shown before the second reading.
C33_OutOfBoundsNeedsTwoReadings ==
    /\ readings = 1 => (homePosition = currentPosition /\ ~isOutOfBounds)
    /\ isOutOfBounds => (homePosition # Null /\ readings >= 2)
    /\ locationAlerts # <<>> => readings >= 2

\* C33: with a contact set, the first reading came from a point more than 5 km
\* from the point 0 (the home of the session before it) and is in bounds.
C33_Witness ==
    /\ readings = 1
    /\ NonBlank(emergencyContact)
    /\ currentPosition # Null
    /\ currentPosition[1].lat > 5
    /\ lastSessionHome # Null
    /\ lastSessionHome[1].lat = 0
    /\ ~isOutOfBounds
    /\ locationAlerts = <<>>

----------------------------------------------------------------------------
(* Properties of starting over *)

\* C34: the hospital list and the hospital error are empty on every screen but the
\* hospital finder: a search can only be issued on the hospital finder, and every
\* way out of it is startNewCheck, so a search that is pending when the session is
\* reset writes neither hospitals nor an error into the reset session.
C34_ResetSessionKeepsNoHospitals ==
    screen # "hospitalFinder" => (hospitals = <<>> /\ hospitalError = "")

\* C35: the loading screen is shown exactly while the call of handleAnalyzeSymptoms
\* is pending; the loading screen is entered from the input screen by the call and
\* is left only when the call ends, for the results screen when the call recorded a
\* check and for the input screen with an error message when it did not.
C35_LoadingExactlyWhilePending ==
    /\ [](analysisRequest <=> screen = "loading")
    /\ [][ /\ (screen # "loading" /\ screen' = "loading")
                 => (screen = "input" /\ ~analysisRequest /\ analysisRequest')
           /\ (screen = "loading" /\ screen' # "loading")
                 => /\ analysisRequest /\ ~analysisRequest'
                    /\ IF history' # history
                       THEN screen' = "results" /\ results' = history'[1].results
                       ELSE screen' = "input" /\ error' # "" ]_vars

\* C35: a second check is loading while the watch is monitored and the hospital
\* search made for the first check is still pending.
C35_Witness ==
    /\ screen = "loading"
    /\ analysisRequest
    /\ Len(history) > 0
    /\ isLinked
    /\ currentPosition # Null
    /\ hospitalRequest # "none"

----------------------------------------------------------------------------
(* Properties of the history *)

\* C36: a call of the analysis that ends on the results screen puts one check, the
\* symptoms that were submitted and the text that was returned, before the checks
\* of the history, which keep their order, and writes that list to the store; in a
\* session nothing else changes the history or the store; on the results screen
\* the first check of the history is the one whose result is displayed.
C36_SuccessPrependsOneCheck ==
    /\ [](screen = "results"
            => /\ history # <<>>
               /\ history[1].results = results
               /\ history[1].symptoms = symptoms)
    /\ [][ /\ (analysisRequest /\ screen' = "results")
                 => /\ history' = <<[symptoms |-> symptoms, results |-> results']>> \o history
                    /\ storedHistory' = history'
           /\ (isAuthenticated /\ isAuthenticated' /\ screen' # "results")
                 => UNCHANGED <<history, storedHistory>> ]_vars

\* C36: the results of a second check, whose symptoms and analysis are not those
\* of the check before it; the store holds both.
C36_Witness ==
    /\ screen = "results"
    /\ Len(history) = 2
    /\ history[1].symptoms # history[2].symptoms
    /\ history[1].results # history[2].results
    /\ storedHistory = history

\* The screens whose way back to the welcome screen is startNewCheck.
WorkflowScreens == {"input", "results", "hospitalFinder", "financialAidQuery",
                    "financialAidResults"}

\* C37: starting over from a workflow screen shows the welcome screen with the
\* fields of the symptom check, of the hospital finder and of the financial aid
\* empty, and leaves the link, the reading, the positions and the boundary state,
\* the two alert latches, the contact, the history in memory and in the store, the
\* chat and the theme as they are; a change of screen leaves a linked watch linked,
\* with its interval and its position watch.
C37_StartOverKeepsTheRest ==
    /\ []((isAuthenticated /\ isLinked) => (intervalId = 1 /\ locationWatchIdRef = 1))
    /\ [][ /\ (screen \in WorkflowScreens /\ screen' = "welcome")
                 => /\ symptoms' = <<>> /\ results' = "" /\ error' = ""
                    /\ budget' = <<>> /\ hospitals' = <<>> /\ hospitalError' = ""
                    /\ financialAidQuery' = <<>> /\ financialAidInfo' = Array(<<>>)
                    /\ financialAidError' = ""
                    /\ UNCHANGED <<isLinked, heartRate, oxygenLevel, homePosition,
                                   currentPosition, isOutOfBounds, vitalsAlertShownRef,
                                   outOfBoundsAlertShownRef, emergencyContact, history,
                                   storedHistory, chatHistory, theme, appTheme>>
           /\ (isLinked /\ screen' # screen)
                 => (isLinked' /\ UNCHANGED <<intervalId, locationWatchIdRef>>) ]_vars

\* C37: the welcome screen after a check was recorded, which only starting over
\* reaches in a session: the watch is linked and out of bounds with both alerts
\* shown, the oxygen level fell, a message was sent and a theme was selected.
C37_Witness ==
    /\ screen = "welcome"
    /\ history # <<>>
    /\ symptoms = <<>>
    /\ results = ""
    /\ isLinked
    /\ oxygenLevel < 92
    /\ isOutOfBounds
    /\ vitalsAlertShownRef
    /\ outOfBoundsAlertShownRef
    /\ NonBlank(emergencyContact)
    /\ chatHistory # <<>>
    /\ theme = "forest"

----------------------------------------------------------------------------
(* Properties of the chat *)

\* The messages of a chat are in turn of the user and of the assistant, the first
\* of the user.
Alternates(chat) ==
    \A i \in 1..Len(chat) : chat[i].role = (IF i % 2 = 1 THEN "user" ELSE "model")

\* C38: the chat alternates between the user and the assistant and starts with
\* the user; the assistant is typing exactly while one call is pending, which is
\* while the last message is of the user; in a session the chat only changes by
\* one message at its end, of the user when a message is sent on the chat screen
\* with no call pending, of the assistant when the pending call ends.
C38_ChatAlternates ==
    /\ [](/\ Alternates(chatHistory)
          /\ Len(chatRequests) = (IF isAssistantTyping THEN 1 ELSE 0)
          /\ isAssistantTyping <=> (Len(chatHistory) % 2 = 1))
    /\ [][(isAuthenticated' /\ chatHistory' # chatHistory)
             => /\ Len(chatHistory') = Len(chatHistory) + 1
                /\ SubSeq(chatHistory', 1, Len(chatHistory)) = chatHistory
                /\ IF chatHistory'[Len(chatHistory')].role = "user"
                   THEN /\ screen = "healthAssistant"
                        /\ ~isAssistantTyping
                        /\ isAssistantTyping'
                        /\ chatRequests' = <<chatHistory'>>
                   ELSE /\ isAssistantTyping
                        /\ ~isAssistantTyping'
                        /\ chatRequests' = <<>> ]_vars

\* C38: away from the chat screen, a chat of two messages and their two replies,
\* the first an answer and the second the error text.
C38_Witness ==
    /\ screen = "theme"
    /\ Len(chatHistory) = 4
    /\ chatHistory[1].text # chatHistory[3].text
    /\ chatHistory[2].text = "answer"
    /\ chatHistory[4].text = "Sorry, I encountered an error. Please try again."
    /\ ~isAssistantTyping

============================================================================
